---- MODULE Spec2Model ----
(***************************************************************************)
(* FlintDB (python/flintdb): the durable file write protocol (file.py),    *)
(* the row/table model (table.py, row.py, schema.py, crypto.py), the       *)
(* query builder, normalizer and executor (query.py) and the result cache  *)
(* (cache.py).                                                             *)
(*                                                                         *)
(* Eight specifications share this module:                                 *)
(*   Spec       File.write step by step, with concurrent readers, I/O      *)
(*              faults and a crash of the writing process;                 *)
(*   SpecTable  Table.insert, Row.delete and cached Query.fetch on one     *)
(*              table directory and its cache directory;                   *)
(*   SpecQuery  the Query builder calls, normalize() and the fetch         *)
(*              pipeline over a fixed table;                               *)
(*   SpecCache  Cache.put and Cache.valid on one cache file as time passes;*)
(*   SpecRow    the caller's reads of the rows a select query returned;    *)
(*   SpecSchema a Schema object under add, remove and valid, and the       *)
(*              metadata Database.create_table persists from it;           *)
(*   SpecRace   cached fetches interleaved with inserts and deletes of     *)
(*              another thread;                                            *)
(*   SpecJoin   a cached join query while the joined table changes.        *)
(***************************************************************************)
EXTENDS Integers, Sequences, FiniteSets, TLC

(***************************************************************************)
(* Bounds of the model.                                                    *)
(***************************************************************************)
\* number of File.write calls one behaviour makes
MaxWrites == 2
\* longest file content, in chunks (one chunk = one write/read system call)
MaxChunks == 2
\* number of builder calls made on one Query object
MaxCalls == 2
\* latest time of the clock that cache files are stamped and probed with
MaxTime == 3

(***************************************************************************)
(* Part 1.  file.py: File.write and the read calls.                        *)
(***************************************************************************)
VARIABLES
  dirent,     \* directory: path -> inode number, 0 when the path is absent
  idata,      \* inode number -> the chunks written to it so far
  nextIno,    \* next unused inode number
  wpc,        \* the writer's position in File.write
  wcontent,   \* the content argument of the running write call
  wtmp,       \* the variable `file`: the temporary path (NoPath before line 101)
  wino,       \* the inode behind the open temporary file
  wpos,       \* chunks of wcontent written so far
  wresult,    \* outcome of the last finished call: "True", "False", "raised", "none"
  wfault,     \* the step of the running/last call at which OSError was raised
  wunlinked,  \* outcome of the handler's unlink: "ok", "enoent", "failed", "none"
  wcreated,   \* the running/last call created or truncated its temporary file
  wrenamed,   \* the running/last call's rename has happened
  wpre,       \* content of the target when the running/last call began
  wcount,     \* write calls begun so far
  committed,  \* the last complete content installed at the target
  crashedAt,  \* writer position at which the process crashed, "none" otherwise
  rpc,        \* reader -> position in its read call
  rino,       \* reader -> inode of its open file
  rbuf,       \* reader -> chunks read so far
  rcands      \* reader -> complete contents its call may legitimately return

fileVars == <<dirent, idata, nextIno, wpc, wcontent, wtmp, wino, wpos, wresult,
              wfault, wunlinked, wcreated, wrenamed, wpre, wcount, committed,
              crashedAt, rpc, rino, rbuf, rcands>>

\* the content of write call number v (0: what the target held at the start),
\* n chunks long; chunk i of it is <<v, i>>
ContentOf(v, n) == [i \in 1..n |-> <<v, i>>]
Lengths == 1..MaxChunks
\* what reading an absent path yields (FileNotFoundError), as a content
Absent == <<<<-1, 0>>>>
NoPath == <<"", "">>
\* reader threads: a read call changes nothing another thread can see, so
\* readers do not affect one another and one stands for any number
Readers == {"r1"}

\* Crypto.random_id(): secrets.token_hex, drawn from a small set
RandomIds == {"h1", "h2"}
\* ".wal." + random_id
WalSuffix(h) == IF h = "h1" THEN ".wal.h1" ELSE ".wal.h2"
\* a path is <<stem, suffix>>; the target of the modelled File object
Target == <<"row", ".ndjson">>
\* Path.with_suffix: the stem kept, the suffix replaced
WithSuffix(p, s) == <<p[1], s>>
TempPathInPlace(p, h) == p
TempPath(p, h) == WithSuffix(p, WalSuffix(h))
Paths == {Target} \cup {WithSuffix(Target, WalSuffix(h)) : h \in RandomIds}
Inodes == 1..(MaxWrites + 1)

\* the files File writes: a row file (table.py 239-241), a .metadata file of
\* a database or table folder (database.py 49, 189; table.py 150) and a
\* cache file named by Crypto.hash's hex digest (cache.py 32-36, 61-62).
\* Path.suffix of ".metadata" is empty, as is that of a digest.
MetadataFile == <<".metadata", "">>
CacheEntry == <<"hash", "">>
WriteTargets == {Target, MetadataFile, CacheEntry}
\* name.endswith(".ndjson") on the names of the model; a hex id ends in none
\* of the letters n, j, s, o
EndsWithNdjson(p) == p[2] = ".ndjson"
\* name.isalnum(): letters and digits only, so no name with a dot
IsAlnum(p) == p[2] = "" /\ p[1] \in {"row", "hash"}
\* Table.rows (table.py 279-283) over a directory: the entries it yields
TableRows(dir) == {p \in DOMAIN dir : dir[p] # 0 /\ EndsWithNdjson(p)}
\* Database.tables (database.py 217-219) over a directory
DatabaseTables(dir) == {p \in DOMAIN dir : dir[p] # 0 /\ IsAlnum(p)}
\* Cache.valid / Cache.get (cache.py 38-49, 64-68): file() is the digest
\* name and is_file() must hold of it
CacheServes(dir) == CacheEntry \in DOMAIN dir /\ dir[CacheEntry] # 0
\* the directory of target t when all it holds is the temporary file a write
\* of t with random id h created
LeftBehind(t, h) == [p \in {t, TempPath(t, h)} |-> IF p = TempPath(t, h) THEN 1 ELSE 0]

Content(p) == IF dirent[p] = 0 THEN Absent ELSE idata[dirent[p]]

InitFile ==
  /\ \E c \in {ContentOf(0, n) : n \in Lengths} \cup {Absent} :
       /\ dirent = [p \in Paths |-> IF p = Target /\ c # Absent THEN 1 ELSE 0]
       /\ idata = [i \in Inodes |-> IF i = 1 /\ c # Absent THEN c ELSE <<>>]
       /\ committed = c
       /\ wpre = c
  /\ nextIno = 2
  /\ wpc = "idle"
  /\ wcontent = <<>>
  /\ wtmp = NoPath
  /\ wino = 0
  /\ wpos = 0
  /\ wresult = "none"
  /\ wfault = "none"
  /\ wunlinked = "none"
  /\ wcreated = FALSE
  /\ wrenamed = FALSE
  /\ wcount = 0
  /\ crashedAt = "none"
  /\ rpc = [r \in Readers |-> "idle"]
  /\ rino = [r \in Readers |-> 0]
  /\ rbuf = [r \in Readers |-> <<>>]
  /\ rcands = [r \in Readers |-> {}]

(***************************************************************************)
(* File.write (lines 88-119).  write_json (121-152) and write_pickle       *)
(* (154-185) run the same steps with json.dump / pickle.dump in place of   *)
(* f.write, so one writer stands for the three.  A crash is the death of   *)
(* the writing process: the file system keeps what was done so far.        *)
(***************************************************************************)
readerVars == <<rpc, rino, rbuf, rcands>>
writerGhost == <<wresult, wfault, wunlinked, wcreated, wrenamed, wpre, crashedAt>>

\* lines 97-101: a call begins; random_id and the temporary path are computed
Begin(n, h) ==
  /\ wpc \in {"idle", "done", "crashed"}
  /\ wcount < MaxWrites
  /\ wcount' = wcount + 1
  /\ wcontent' = ContentOf(wcount + 1, n)
  /\ wtmp' = TempPath(Target, h)
  /\ wino' = 0
  /\ wpos' = 0
  /\ wresult' = "none"
  /\ wfault' = "none"
  /\ wunlinked' = "none"
  /\ wcreated' = FALSE
  /\ wrenamed' = FALSE
  /\ wpre' = Content(Target)
  /\ crashedAt' = "none"
  /\ wpc' = "open"
  /\ rcands' = [r \in Readers |->
                  IF rpc[r] = "reading"
                    THEN rcands[r] \cup {ContentOf(wcount + 1, n)}
                    ELSE rcands[r]]
  /\ UNCHANGED <<dirent, idata, nextIno, committed, rpc, rino, rbuf>>

\* line 102: file.open(mode="w") creates the temporary file, or truncates the
\* file already at that path
OpenOk ==
  /\ wpc = "open"
  /\ IF dirent[wtmp] # 0
       THEN /\ wino' = dirent[wtmp]
            /\ idata' = [idata EXCEPT ![dirent[wtmp]] = <<>>]
            /\ UNCHANGED <<dirent, nextIno>>
       ELSE /\ wino' = nextIno
            /\ nextIno' = nextIno + 1
            /\ dirent' = [dirent EXCEPT ![wtmp] = nextIno]
            /\ idata' = [idata EXCEPT ![nextIno] = <<>>]
  /\ wcreated' = TRUE
  /\ wpc' = "write"
  /\ UNCHANGED <<wcontent, wtmp, wpos, wresult, wfault, wunlinked, wrenamed,
                 wpre, wcount, committed, crashedAt>>
  /\ UNCHANGED readerVars

\* an OSError raised at the step the writer is at: control goes to line 115
Fault(step) ==
  /\ wfault' = step
  /\ wpc' = "except"
  /\ UNCHANGED <<dirent, idata, nextIno, wcontent, wtmp, wino, wpos, wresult,
                 wunlinked, wcreated, wrenamed, wpre, wcount, committed, crashedAt>>
  /\ UNCHANGED readerVars

OpenFail == wpc = "open" /\ Fault("open")

\* lines 103-104: f.write / f.flush hand the content to the file chunk by chunk
WriteChunk ==
  /\ wpc = "write"
  /\ wpos < Len(wcontent)
  /\ idata' = [idata EXCEPT ![wino] = Append(@, wcontent[wpos + 1])]
  /\ wpos' = wpos + 1
  /\ UNCHANGED <<dirent, nextIno, wpc, wcontent, wtmp, wino, wcount, committed>>
  /\ UNCHANGED writerGhost
  /\ UNCHANGED readerVars

WriteFail == wpc = "write" /\ wpos < Len(wcontent) /\ Fault("write")

\* line 105: os.fsync(f.fileno()), then the with block closes the file
FsyncOk ==
  /\ wpc = "write"
  /\ wpos = Len(wcontent)
  /\ wpc' = "replace"
  /\ UNCHANGED <<dirent, idata, nextIno, wcontent, wtmp, wino, wpos, wcount, committed>>
  /\ UNCHANGED writerGhost
  /\ UNCHANGED readerVars

FsyncFail == wpc = "write" /\ wpos = Len(wcontent) /\ Fault("fsync")

\* line 107: file.replace(self._file), the atomic rename
ReplaceOk ==
  /\ wpc = "replace"
  /\ dirent' = IF wtmp = Target THEN dirent
               ELSE [dirent EXCEPT ![Target] = dirent[wtmp], ![wtmp] = 0]
  /\ committed' = wcontent
  /\ wrenamed' = TRUE
  /\ wpc' = "dirsync"
  /\ UNCHANGED <<idata, nextIno, wcontent, wtmp, wino, wpos, wresult, wfault,
                 wunlinked, wcreated, wpre, wcount, crashedAt>>
  /\ UNCHANGED readerVars

ReplaceFail == wpc = "replace" /\ Fault("rename")

\* lines 108-114: the directory is opened, fsynced and closed; return True
DirFsyncOk ==
  /\ wpc = "dirsync"
  /\ wresult' = "True"
  /\ wpc' = "done"
  /\ UNCHANGED <<dirent, idata, nextIno, wcontent, wtmp, wino, wpos, wfault,
                 wunlinked, wcreated, wrenamed, wpre, wcount, committed, crashedAt>>
  /\ UNCHANGED readerVars

DirFsyncFail == wpc = "dirsync" /\ Fault("dirfsync")

\* a handler that returns False without removing the temporary file
ExceptNoUnlink ==
  /\ wpc = "except"
  /\ wunlinked' = "none"
  /\ wresult' = "False"
  /\ wpc' = "done"
  /\ UNCHANGED <<dirent, idata, nextIno, wcontent, wtmp, wino, wpos, wfault,
                 wcreated, wrenamed, wpre, wcount, committed, crashedAt>>
  /\ UNCHANGED readerVars

\* lines 115-119: except OSError: try file.unlink() finally return False.
\* unlink removes the temporary file, or raises FileNotFoundError when there
\* is none, or fails with an OSError of its own; the finally clause's return
\* discards whichever exception unlink raised.
Except ==
  /\ wpc = "except"
  /\ \/ /\ dirent[wtmp] # 0
        /\ dirent' = [dirent EXCEPT ![wtmp] = 0]
        /\ wunlinked' = "ok"
     \/ /\ dirent[wtmp] # 0
        /\ dirent' = dirent
        /\ wunlinked' = "failed"
     \/ /\ dirent[wtmp] = 0
        /\ dirent' = dirent
        /\ wunlinked' = "enoent"
  /\ wresult' = "False"
  /\ wpc' = "done"
  /\ UNCHANGED <<idata, nextIno, wcontent, wtmp, wino, wpos, wfault,
                 wcreated, wrenamed, wpre, wcount, committed, crashedAt>>
  /\ UNCHANGED readerVars

\* the writing process dies in the middle of a call
Crash ==
  /\ wpc \in {"open", "write", "replace", "dirsync", "except"}
  /\ crashedAt' = wpc
  /\ wpc' = "crashed"
  /\ UNCHANGED <<dirent, idata, nextIno, wcontent, wtmp, wino, wpos, wresult, wfault,
                 wunlinked, wcreated, wrenamed, wpre, wcount, committed>>
  /\ UNCHANGED readerVars

(***************************************************************************)
(* The read calls: read (16-18), read_json (20-32), readlines (66-86).     *)
(* Each opens the path once and reads that open file to its end.           *)
(***************************************************************************)
writerVars == <<nextIno, wpc, wcontent, wtmp, wino, wpos, wresult, wfault, wunlinked,
                wcreated, wrenamed, wpre, wcount, committed, crashedAt>>

\* lines 18, 28, 78: open the target path
ReadOpen(r) ==
  /\ rpc[r] = "idle"
  /\ IF dirent[Target] = 0
       THEN /\ rpc' = [rpc EXCEPT ![r] = "done"]
            /\ rbuf' = [rbuf EXCEPT ![r] = Absent]
            /\ rino' = [rino EXCEPT ![r] = 0]
       ELSE /\ rpc' = [rpc EXCEPT ![r] = "reading"]
            /\ rbuf' = [rbuf EXCEPT ![r] = <<>>]
            /\ rino' = [rino EXCEPT ![r] = dirent[Target]]
  /\ rcands' = [rcands EXCEPT ![r] =
                  {committed} \cup
                  (IF wpc \in {"open", "write", "replace", "dirsync", "except"}
                     THEN {wcontent} ELSE {})]
  /\ UNCHANGED <<dirent, idata>>
  /\ UNCHANGED writerVars

\* lines 18, 29, 79: the next chunk of the open file, or its end
ReadChunk(r) ==
  /\ rpc[r] = "reading"
  /\ IF Len(rbuf[r]) < Len(idata[rino[r]])
       THEN /\ rbuf' = [rbuf EXCEPT ![r] = Append(@, idata[rino[r]][Len(@) + 1])]
            /\ rpc' = rpc
       ELSE /\ rpc' = [rpc EXCEPT ![r] = "done"]
            /\ rbuf' = rbuf
  /\ UNCHANGED <<dirent, idata, rino, rcands>>
  /\ UNCHANGED writerVars

\* the call has returned; the thread may read again
ReadReturn(r) ==
  /\ rpc[r] = "done"
  /\ rpc' = [rpc EXCEPT ![r] = "idle"]
  /\ rbuf' = [rbuf EXCEPT ![r] = <<>>]
  /\ rino' = [rino EXCEPT ![r] = 0]
  /\ rcands' = [rcands EXCEPT ![r] = {}]
  /\ UNCHANGED <<dirent, idata>>
  /\ UNCHANGED writerVars


\* File.write seen from its caller (lines 97-119), by the step at which an
\* OSError is raised ("none": no failure): whether the target path now names
\* the new content, and what the call returns.
WriteSteps == {"open", "write", "fsync", "rename", "dirfsync"}
WriteFaults == WriteSteps \cup {"none"}
WriteReplaces(fault) == fault \in {"none", "dirfsync"}
WriteReturns(fault) == fault = "none"
\* the outcomes of one call: whether the target was replaced, what it returned
WriteOutcomes ==
  {[replaced |-> WriteReplaces(f), returned |-> WriteReturns(f)] : f \in WriteFaults}

(***************************************************************************)
(* Part 2.  Values, json, schema.py, crypto.py, row.py, table.py.          *)
(***************************************************************************)
\* Python values: t is the runtime type.  A dict is modelled with one entry,
\* key n (kt = "int") or key str(n) (kt = "str"), mapped to the string s.
PyNone == [t |-> "NoneType", n |-> 0, s |-> "", kt |-> ""]
PyInt(i) == [t |-> "int", n |-> i, s |-> "", kt |-> ""]
PyStr(x) == [t |-> "str", n |-> 0, s |-> x, kt |-> ""]
PyDict(keytype, key, val) == [t |-> "dict", n |-> key, s |-> val, kt |-> keytype]

\* json documents: null, a number, a string, or an object whose one member
\* has the name str(n) (member names are always strings) and the value s
JNull == [j |-> "null", n |-> 0, s |-> ""]
JNumber(i) == [j |-> "number", n |-> i, s |-> ""]
JString(x) == [j |-> "string", n |-> 0, s |-> x]
JObject(key, val) == [j |-> "object", n |-> key, s |-> val]

\* json.dumps (table.py 219, 234, 237): a dict key that is an int is written
\* as the string of its digits
JsonDumps(v) ==
  CASE v.t = "NoneType" -> JNull
    [] v.t = "int" -> JNumber(v.n)
    [] v.t = "str" -> JString(v.s)
    [] v.t = "dict" -> JObject(v.n, v.s)

\* json.loads (file.py 60, 82): an object becomes a dict with str keys
JsonLoads(d) ==
  CASE d.j = "null" -> PyNone
    [] d.j = "number" -> PyInt(d.n)
    [] d.j = "string" -> PyStr(d.s)
    [] d.j = "object" -> PyDict("str", d.n, d.s)

\* Python's order on the column, table and prefix names in use
NameRank(x) ==
  CASE x = "_id" -> 0
    [] x = "a" -> 1
    [] x = "b" -> 2
    [] x = "c" -> 3
    [] x = "u" -> 4
    [] OTHER -> 5
NameLess(x, y) == NameRank(x) < NameRank(y)

\* sorted(): the elements of S in ascending order
RECURSIVE SortedNames(_)
SortedNames(S) ==
  IF S = {} THEN <<>>
  ELSE LET m == CHOOSE x \in S : \A y \in S : ~NameLess(y, x)
       IN <<m>> \o SortedNames(S \ {m})

\* Schema.valid_types (schema.py 117-130): type name -> accepted runtime types
ValidTypes(typename) ==
  CASE typename = "@list" -> {"list"}
    [] typename = "@bool" -> {"bool"}
    [] typename = "@enum" -> {"list", "bool", "float", "int", "dict", "str"}
    [] typename = "@float" -> {"float"}
    [] typename = "@integer" -> {"int"}
    [] typename = "@numeric" -> {"str", "int", "float"}
    [] typename = "@object" -> {"dict"}
    [] typename = "@text" -> {"str"}

\* isinstance(value, ty): bool is a subclass of int
IsInstance(value, ty) == value.t = ty \/ (ty = "int" /\ value.t = "bool")

\* a table schema (metadata["schema"]): declared column -> its options
Col(typename, encrypted, required) ==
  [type |-> typename, encrypted |-> encrypted, required |-> required]

\* Schema.has_encrypted_columns (schema.py 36-40, 113-115)
HasEncryptedColumns(schema) == \E c \in DOMAIN schema : schema[c].encrypted

\* Schema.valid (schema.py 77-98).  Line 89 tests the type name "enum" and
\* reads the options' enum_values, which only a column of that name has
SchemaValid(schema, name, value) ==
  IF name \notin DOMAIN schema THEN TRUE
  ELSE IF ~schema[name].required /\ value = PyNone THEN TRUE
  ELSE IF schema[name].type = "enum" /\ value \notin schema[name].enum_values THEN FALSE
  ELSE \E ty \in ValidTypes(schema[name].type) : IsInstance(value, ty)

\* the keys of Schema.valid_types() (schema.py 120-129)
ValidTypeNames ==
  {"@list", "@bool", "@enum", "@float", "@integer", "@numeric", "@object", "@text"}
\* no enum_values keyword in the call
NoEnum == "<no enum_values>"

\* Schema.add (schema.py 36-61) on an object with the columns defs and the
\* flag _has_encrypted_columns: what it raises and what it leaves.  The type
\* test of line 36 is against the keys of valid_types(), the enum branch of
\* line 48 against the name "enum"; lines 39-46 run before that branch.
\* enum_values: a set of values of one type, or NoEnum.
SchemaAdd(defs, flag, name, typename, encrypted, required, enum_values) ==
  LET col == Col(typename, encrypted, required)
      put == (name :> col) @@ defs
      out(e, d, f) == [raised |-> e, defs |-> d, flag |-> f]
  IN  IF typename \notin ValidTypeNames THEN out("ValueError", defs, flag)
      ELSE IF typename # "enum" THEN out("none", put, flag \/ encrypted)
      ELSE IF enum_values = NoEnum THEN out("TypeError", put, flag \/ encrypted)
      ELSE IF enum_values = {} THEN out("ValueError", put, flag \/ encrypted)
      ELSE out("none",
               (name :> [type |-> typename, encrypted |-> encrypted,
                         required |-> required, enum_values |-> enum_values]) @@ defs,
               flag \/ encrypted)

\* Schema.remove (schema.py 100-107): deletes the column and leaves the flag
SchemaRemove(defs, name) == [c \in DOMAIN defs \ {name} |-> defs[c]]

\* Crypto.decrypt (crypto.py 50-66): line 65 reads `data`, a name the
\* function never binds, so every call raises NameError
CryptoDecrypt(cipher, key) == [raised |-> "NameError"]

\* Database.kek(): None when no passphrase was given
NoKey == "<no kek>"
\* a row file (<id>.ndjson): line 0, the json list of the column names, and
\* one json document per following line; exists = FALSE: no such file
NoFile == [exists |-> FALSE, header |-> <<>>, values |-> <<>>]
RowFile(header, values) == [exists |-> TRUE, header |-> header, values |-> values]
\* ids Crypto.random_id(8) can return
RowIds == {"r1", "r2"}
\* no "_id" entry in the columns argument
NoId == ""

Min(x, y) == IF x < y THEN x ELSE y
Raised(e) == [raised |-> e, pairs |-> <<>>]

\* Row.columns (row.py 156-189) on a handle with no overlay columns and no
\* cached header: the (name, value) pairs it yields, or what it raises
RowColumns(files, schema, kek, id) ==
  IF ~files[id].exists THEN Raised("FileNotFoundError")
  ELSE IF HasEncryptedColumns(schema) /\ kek = NoKey THEN Raised("ValueError:kek")
  ELSE IF HasEncryptedColumns(schema) THEN Raised(CryptoDecrypt("dek", kek).raised)
  ELSE LET f == files[id]
           n == Min(Len(f.header), Len(f.values))
       IN [raised |-> "none",
           pairs |-> [i \in 1..n |-> <<f.header[i], JsonLoads(f.values[i])>>]
                       \o << <<"_id", PyStr(id)>> >>]

\* an insert that writes its columns in descending name order
InsertEvalDescending(schema, kek, cols, idArg, newid) ==
  LET full == [k \in DOMAIN cols \cup DOMAIN schema |->
                 IF k \in DOMAIN cols THEN cols[k] ELSE PyNone]
      asc == SortedNames(DOMAIN full)
      hdr == [i \in DOMAIN asc |-> asc[Len(asc) + 1 - i]]
      out(e, f) == [raised |-> e, stem |-> newid, file |-> f]
  IN  IF DOMAIN cols = {} /\ idArg = NoId THEN out("ValueError:empty", NoFile)
      ELSE IF idArg # NoId THEN out("UnboundLocalError", NoFile)
      ELSE IF DOMAIN schema # {} /\ \E k \in DOMAIN full : ~SchemaValid(schema, k, full[k])
        THEN out("ValueError:invalid", NoFile)
      ELSE IF HasEncryptedColumns(schema) /\ kek = NoKey THEN out("ValueError:kek", NoFile)
      ELSE IF HasEncryptedColumns(schema) THEN out(CryptoDecrypt("dek", kek).raised, NoFile)
      ELSE out("none", RowFile(hdr, [i \in 1..Len(hdr) |-> JsonDumps(full[hdr[i]])]))

\* Table.insert up to the write (table.py 174-237): the file it is about to
\* write and its content, or what it raises.  cols: the columns argument
\* without "_id"; idArg: its "_id" entry or NoId; newid: the id lines 185-187
\* draw, which names no existing file.  `id` is a local of insert bound only
\* on the path without "_id" (line 185), so line 192 raises UnboundLocalError
\* on the path with it; Table.row (270-271) builds a handle and never raises.
\* The file of a fresh id does not exist, so line 193 is false and lines
\* 198-200 default the schema's columns.
InsertEval(schema, kek, cols, idArg, newid) ==
  LET full == [k \in DOMAIN cols \cup DOMAIN schema |->
                 IF k \in DOMAIN cols THEN cols[k] ELSE PyNone]
      hdr == SortedNames(DOMAIN full)
      out(e, f) == [raised |-> e, stem |-> newid, file |-> f]
  IN  IF DOMAIN cols = {} /\ idArg = NoId THEN out("ValueError:empty", NoFile)
      ELSE IF idArg # NoId THEN out("UnboundLocalError", NoFile)
      ELSE IF DOMAIN schema # {} /\ \E k \in DOMAIN full : ~SchemaValid(schema, k, full[k])
        THEN out("ValueError:invalid", NoFile)
      ELSE IF HasEncryptedColumns(schema) /\ kek = NoKey THEN out("ValueError:kek", NoFile)
      ELSE IF HasEncryptedColumns(schema) THEN out(CryptoDecrypt("dek", kek).raised, NoFile)
      ELSE out("none", RowFile(hdr, [i \in 1..Len(hdr) |-> JsonDumps(full[hdr[i]])]))


(***************************************************************************)
(* Part 3.  query.py: the builder, normalize, Where.match and the fetch    *)
(* pipeline; cache.py: the cache file name.                                *)
(***************************************************************************)
\* One builder call.  Unused fields hold a fixed filler.
Call(kind, col, op, val, asc, cb, new) ==
  [kind |-> kind, col |-> col, op |-> op, val |-> val, asc |-> asc, cb |-> cb, new |-> new]
CWhere(col, op, val) == Call("where", col, op, val, FALSE, "", "")
CSort(col, order) == Call("sort", col, order, PyNone, FALSE, "", "")
CDistinct(col) == Call("distinct", col, "", PyNone, FALSE, "", "")
CSelect(col, new) == Call("select", col, "", PyNone, FALSE, "", new)
CFilter(cb) == Call("filter", "", "", PyNone, FALSE, cb, "")
CMap(cb) == Call("map", "", "", PyNone, FALSE, cb, "")
\* join(table_name, [left, op, right], prefix): col is the table name, new
\* the prefix, cb/op/val.s the left column, operator and right column
CJoin(tbl, left, op, right, prefix) == Call("join", tbl, op, PyStr(right), FALSE, left, prefix)

\* Query.__init__ (query.py 18): self._query = {}.  A dict is the sequence of
\* its (key, value) items in insertion order; a clause list not yet created
\* is the empty sequence, as normalize (233-258) makes it.
EmptyQuery ==
  [join |-> <<>>, map |-> <<>>, where |-> <<>>, select |-> <<>>,
   distinct |-> <<>>, sort |-> <<>>, filter |-> <<>>]

\* d[k] = v on a dict: the value replaced in place, or a new last item
DictSet(d, k, v) ==
  IF \E i \in DOMAIN d : d[i][1] = k
    THEN [i \in DOMAIN d |-> IF d[i][1] = k THEN <<k, v>> ELSE d[i]]
    ELSE Append(d, <<k, v>>)

\* Query.sort with the order flag as written by the caller ("ASC" -> True)
SortFlag(order) == order = "ASC"

\* the builder methods (query.py 34-131)
Apply(q, c) ==
  CASE c.kind = "join" ->
         [q EXCEPT !.join = DictSet(@, c.col, << <<c.cb, c.op, c.val.s>>, c.new >>)]
    [] c.kind = "map" -> [q EXCEPT !.map = Append(@, <<c.cb, "">>)]
    [] c.kind = "where" -> [q EXCEPT !.where = DictSet(@, c.col, <<c.op, c.val>>)]
    [] c.kind = "select" -> [q EXCEPT !.select = DictSet(@, c.col, c.new)]
    [] c.kind = "distinct" -> [q EXCEPT !.distinct = Append(@, c.col)]
    [] c.kind = "sort" -> [q EXCEPT !.sort = Append(@, <<c.col, SortFlag(c.op)>>)]
    [] c.kind = "filter" -> [q EXCEPT !.filter = Append(@, <<c.cb, "">>)]

RECURSIVE ApplyAll(_, _)
ApplyAll(q, calls) ==
  IF calls = <<>> THEN q ELSE ApplyAll(Apply(q, Head(calls)), Tail(calls))

\* list.sort / sorted, which are stable: seq ordered by the integer keys
\* rank[i] of its elements, equal keys in their original order; with
\* reverse (list.sort(reverse=True)) by descending key, equal keys still in
\* their original order
StableSort(seq, rank, reverse) ==
  LET n == Len(seq)
      before(j, i) ==
        \/ (IF reverse THEN rank[j] > rank[i] ELSE rank[j] < rank[i])
        \/ rank[j] = rank[i] /\ j < i
      pos(i) == 1 + Cardinality({j \in 1..n : before(j, i)})
  IN [k \in 1..n |-> seq[CHOOSE i \in 1..n : pos(i) = k]]

\* Python's order on the items being sorted, as integer keys
BoolRank(b) == IF b THEN 1 ELSE 0
ItemKeys(items) == [i \in DOMAIN items |-> NameRank(items[i][1])]
NameKeys(names) == [i \in DOMAIN names |-> NameRank(names[i])]
SortEntryKeys(entries) ==
  [i \in DOMAIN entries |-> 2 * NameRank(entries[i][1]) + BoolRank(entries[i][2])]
\* [callback, doc] lists: two different functions have no order (TypeError)
Unorderable(list) == \E i, j \in DOMAIN list : list[i][1] # list[j][1]

\* normalize that leaves the clause lists in registration order
NormalizeUnsorted(q) == [raised |-> "none", desc |-> q]

\* Query.normalize (query.py 221-262): every clause list sorted
Normalize(q) ==
  IF Unorderable(q.map) \/ Unorderable(q.filter)
    THEN [raised |-> "TypeError", desc |-> EmptyQuery]
    ELSE [raised |-> "none",
          desc |-> [join |-> StableSort(q.join, ItemKeys(q.join), FALSE),
                    map |-> q.map,
                    where |-> StableSort(q.where, ItemKeys(q.where), FALSE),
                    select |-> StableSort(q.select, ItemKeys(q.select), FALSE),
                    distinct |-> StableSort(q.distinct, NameKeys(q.distinct), FALSE),
                    sort |-> StableSort(q.sort, SortEntryKeys(q.sort), FALSE),
                    filter |-> q.filter]]


\* Crypto.hash (crypto.py 75-80) behind Cache.file (cache.py 32-36): a digest
\* of the pickled descriptor.  The digest here folds the descriptor's items,
\* in order, into a number below HashMod.
HashMod == 65521
ValCode(v) ==
  CASE v.t = "NoneType" -> 1
    [] v.t = "int" -> 10 + v.n
    [] v.t = "str" -> 30
    [] v.t = "dict" -> 40 + v.n
OpCode(op) ==
  CASE op \in {"=", "eq", "is"} -> 1
    [] op \in {"!=", "neq", "is not"} -> 2
    [] op \in {">", "gt"} -> 3
    [] op \in {">=", "gte"} -> 4
    [] op \in {"<", "lt"} -> 5
    [] op \in {"<=", "lte"} -> 6
    [] OTHER -> 7
CbCode(cb) == IF cb \in {"f1", "m1"} THEN 1 ELSE 2
RECURSIVE Digest(_, _)
Digest(h, codes) ==
  IF codes = <<>> THEN h
  ELSE Digest((h * 31 + Head(codes)) % HashMod, Tail(codes))
RECURSIVE Flatten(_)
Flatten(seqs) == IF seqs = <<>> THEN <<>> ELSE Head(seqs) \o Flatten(Tail(seqs))
DescCodes(d) ==
  <<101>> \o Flatten([i \in DOMAIN d.distinct |-> <<NameRank(d.distinct[i])>>])
  \o <<102>> \o Flatten([i \in DOMAIN d.filter |-> <<CbCode(d.filter[i][1])>>])
  \o <<103>> \o Flatten([i \in DOMAIN d.join |->
                  <<NameRank(d.join[i][1]), NameRank(d.join[i][2][1][1]),
                    OpCode(d.join[i][2][1][2]), NameRank(d.join[i][2][1][3]),
                    NameRank(d.join[i][2][2])>>])
  \o <<104>> \o Flatten([i \in DOMAIN d.map |-> <<CbCode(d.map[i][1])>>])
  \o <<105>> \o Flatten([i \in DOMAIN d.select |->
                  <<NameRank(d.select[i][1]), NameRank(d.select[i][2])>>])
  \o <<106>> \o Flatten([i \in DOMAIN d.sort |->
                  <<NameRank(d.sort[i][1]), BoolRank(d.sort[i][2])>>])
  \o <<107>> \o Flatten([i \in DOMAIN d.where |->
                  <<NameRank(d.where[i][1]), OpCode(d.where[i][2][1]),
                    ValCode(d.where[i][2][2])>>])
\* Cache.file: the cache file's name for a normalized descriptor
CacheFile(d) == Digest(7, DescCodes(d))

\* a Row handle (row.py 18-22): its id, its cached header `_schema` (<<>>:
\* not read yet) and its overlay columns `_custom`
Handle(id) == [id |-> id, hdr |-> <<>>, custom |-> <<>>]
\* Row.schema (row.py 118-123): the cached header, read from line 0 when the
\* cache is empty
RowSchema(h, files) == IF h.hdr = <<>> THEN files[h.id].header ELSE h.hdr
Loaded(h, files) == [h EXCEPT !.hdr = RowSchema(h, files)]
SeqRange(seq) == {seq[i] : i \in DOMAIN seq}
IndexOf(seq, x) == CHOOSE i \in DOMAIN seq : seq[i] = x /\ \A j \in 1..(i - 1) : seq[j] # x
Got(v) == [raised |-> "none", val |-> v]
Threw(e) == [raised |-> e, val |-> PyNone]

\* Row.column (row.py 125-154)
RowColumn(h, files, schema, kek, name) ==
  IF name = "_id" THEN Got(PyStr(h.id))
  ELSE IF ~files[h.id].exists THEN Threw("FileNotFoundError")
  ELSE LET hdr == RowSchema(h, files)
       IN IF name \notin SeqRange(hdr)
            THEN Got(IF name \in DOMAIN h.custom THEN h.custom[name] ELSE PyNone)
          ELSE IF IndexOf(hdr, name) > Len(files[h.id].values) THEN Threw("ValueError:json")
          ELSE IF name \in DOMAIN schema /\ schema[name].encrypted
            THEN (IF kek = NoKey THEN Threw("ValueError:kek")
                  ELSE Threw(CryptoDecrypt("dek", kek).raised))
          ELSE Got(JsonLoads(files[h.id].values[IndexOf(hdr, name)]))

\* Row.rename_column (row.py 201-210)
RenameColumn(h, files, name, new) ==
  LET hdr == RowSchema(h, files)
  IN IF name \in SeqRange(hdr)
       THEN [h EXCEPT !.hdr = [i \in DOMAIN hdr |->
                                 IF i = IndexOf(hdr, name) THEN new ELSE hdr[i]]]
       ELSE Loaded(h, files)

\* Python's < between two values: defined (no TypeError) for two ints
Comparable(x, y) == x.t = "int" /\ y.t = "int"

\* Where.match (query.py 369-421) for a criteria value that is an int: the
\* operators that index or iterate the value raise TypeError on it, which
\* line 420 turns into False, and str(value) holds no wildcard
WhereMatchValue(rv, op, value) ==
  CASE op \in {"=", "eq", "is"} -> rv = value
    [] op \in {"!=", "neq", "is not"} -> rv # value
    [] op \in {">", "gt"} -> Comparable(rv, value) /\ rv.n > value.n
    [] op \in {">=", "gte"} -> Comparable(rv, value) /\ rv.n >= value.n
    [] op \in {"<", "lt"} -> Comparable(rv, value) /\ rv.n < value.n
    [] op \in {"<=", "lte"} -> Comparable(rv, value) /\ rv.n <= value.n
    [] op \in {"in", "is in", "not in", "between", "not between"} -> FALSE
    [] op = "like" -> rv = value
    [] op = "not like" -> rv # value
    [] OTHER -> FALSE

\* Where.match (query.py 394-397) for a criteria value that is the list
\* [lo, hi] of two ints: a comparison with a row value that is no int raises
\* TypeError, which line 420 turns into False
WhereMatchRange(rv, op, lo, hi) ==
  CASE op = "between" ->
         Comparable(rv, lo) /\ Comparable(rv, hi) /\ rv.n >= lo.n /\ rv.n <= hi.n
    [] op = "not between" ->
         Comparable(rv, lo) /\ Comparable(rv, hi) /\ rv.n <= lo.n /\ rv.n >= hi.n
    [] OTHER -> FALSE

\* Where(row).criteria(column, op, value) then match(): the row's value is
\* read with row[column]; an error other than TypeError and IndexError leaves
\* match
WhereMatch(h, files, schema, kek, clause) ==
  LET rv == RowColumn(h, files, schema, kek, clause[1])
  IN IF rv.raised # "none" THEN [raised |-> rv.raised, m |-> FALSE]
     ELSE [raised |-> "none", m |-> WhereMatchValue(rv.val, clause[2][1], clause[2][2])]


\* the first error in a sequence of results, "none" when there is none
FirstRaised(results) ==
  IF \E i \in DOMAIN results : results[i].raised # "none"
    THEN results[CHOOSE i \in DOMAIN results :
                   /\ results[i].raised # "none"
                   /\ \A j \in 1..(i - 1) : results[j].raised = "none"].raised
    ELSE "none"

RECURSIVE RenameAll(_, _, _)
RenameAll(h, files, selects) ==
  IF selects = <<>> THEN h
  ELSE RenameAll(RenameColumn(h, files, Head(selects)[1], Head(selects)[2]), files,
                 Tail(selects))

Copies(h, k) == [i \in 1..k |-> h]

\* Query.fetch, the body of the loop over the table's rows (query.py
\* 166-195) for a query with no join and no map clause: the row is appended
\* once for every where clause it matches (186-187), or once when there is no
\* where clause (189); a row that was appended has its select renames applied
\* (194-195), and every copy in the list is that one renamed object
RowStageOf(desc, files, schema, kek, h) ==
  LET ms == [i \in DOMAIN desc.where |-> WhereMatch(h, files, schema, kek, desc.where[i])]
      k == IF desc.where = <<>> THEN 1 ELSE Cardinality({i \in DOMAIN ms : ms[i].m})
      touched == IF desc.select = <<>> /\ \A i \in DOMAIN desc.where : desc.where[i][1] = "_id"
                   THEN h ELSE Loaded(h, files)
  IN IF FirstRaised(ms) # "none" THEN [raised |-> FirstRaised(ms), rows |-> <<>>]
     ELSE [raised |-> "none", rows |-> Copies(RenameAll(touched, files, desc.select), k)]
RowStage(desc, files, schema, kek, id) == RowStageOf(desc, files, schema, kek, Handle(id))

RECURSIVE RowsStage(_, _, _, _, _)
RowsStage(desc, files, schema, kek, ids) ==
  IF ids = <<>> THEN [raised |-> "none", rows |-> <<>>]
  ELSE LET first == RowStage(desc, files, schema, kek, Head(ids))
           rest == RowsStage(desc, files, schema, kek, Tail(ids))
       IN IF first.raised # "none" THEN first
          ELSE IF rest.raised # "none" THEN rest
          ELSE [raised |-> "none", rows |-> first.rows \o rest.rows]

\* the table a join names (Database.table, query.py 170): its row files and
\* the order Table.rows() lists them in
JoinTarget(ufiles, uorder) == [files |-> ufiles, order |-> uorder]
\* prefix + key (query.py 175) on the prefix and the column names in use
Concat(prefix, key) ==
  CASE key = "_id" -> "u_id"
    [] key = "a" -> "ua"
    [] key = "b" -> "ub"
    [] OTHER -> "u?"
\* the last element of seq in S
LastIn(seq, S) == seq[CHOOSE i \in DOMAIN seq : seq[i] \in S /\ \A j \in (i + 1)..Len(seq) : seq[j] \notin S]
\* the first element of seq in S
FirstIn(seq, S) == seq[CHOOSE i \in DOMAIN seq : seq[i] \in S /\ \A j \in 1..(i - 1) : seq[j] \notin S]
\* Join.filter (query.py 314-329) on every row of the target table: the ids
\* of the target rows for which Where(row).match() holds with the criteria
\* (left, op, target[right])
JoinMatches(h, files, schema, kek, on, target) ==
  {t \in SeqRange(target.order) :
     LET value == RowColumn(Handle(t), target.files, <<>>, NoKey, on[3]).val
     IN WhereMatch(h, files, schema, kek, <<on[1], <<on[2], value>> >>).m}
\* the pairs of Join.row()'s columns() set on the row with the prefix
\* (query.py 173-176); row[key] = value writes the overlay (row.py 24-31)
Overlay(h, prefix, pairs) ==
  [h EXCEPT !.custom = [n \in {Concat(prefix, pairs[i][1]) : i \in DOMAIN pairs} |->
                          pairs[CHOOSE i \in DOMAIN pairs : Concat(prefix, pairs[i][1]) = n][2]]
                       @@ h.custom]
\* query.py 167-176 for one join clause: Join.row() (331-340) is the first
\* row the target query's filter keeps, None when it keeps none
JoinOne(h, files, schema, kek, clause, target) ==
  LET on == clause[2][1]
      prefix == clause[2][2]
      ms == JoinMatches(h, files, schema, kek, on, target)
      seen == IF target.order # <<>> /\ on[1] # "_id" THEN Loaded(h, files) ELSE h
  IN IF ms = {} THEN seen
     ELSE Overlay(seen, prefix,
                  RowColumns(target.files, <<>>, NoKey, FirstIn(target.order, ms)).pairs)
RECURSIVE JoinAll(_, _, _, _, _, _)
JoinAll(h, files, schema, kek, joins, target) ==
  IF joins = <<>> THEN h
  ELSE JoinAll(JoinOne(h, files, schema, kek, Head(joins), target), files, schema, kek,
               Tail(joins), target)
RECURSIVE RowsStageJoin(_, _, _, _, _, _)
RowsStageJoin(desc, files, schema, kek, ids, target) ==
  IF ids = <<>> THEN [raised |-> "none", rows |-> <<>>]
  ELSE LET first == RowStageOf(desc, files, schema, kek,
                               JoinAll(Handle(Head(ids)), files, schema, kek, desc.join, target))
           rest == RowsStageJoin(desc, files, schema, kek, Tail(ids), target)
       IN IF first.raised # "none" THEN first
          ELSE IF rest.raised # "none" THEN rest
          ELSE [raised |-> "none", rows |-> first.rows \o rest.rows]

\* row[column] for every row of the list
ColumnOfAll(data, files, schema, kek, name) ==
  [i \in DOMAIN data |-> RowColumn(data[i], files, schema, kek, name)]
\* the elements of seq that are in S, in their order
RECURSIVE SelectSeqIn(_, _)
SelectSeqIn(seq, S) ==
  IF seq = <<>> THEN <<>>
  ELSE (IF Head(seq) \in S THEN <<Head(seq)>> ELSE <<>>) \o SelectSeqIn(Tail(seq), S)
KeepIndices(data, keep) == SelectSeqIn([i \in DOMAIN data |-> i], keep)
Keep(data, keep) == [k \in DOMAIN KeepIndices(data, keep) |-> data[KeepIndices(data, keep)[k]]]

\* a distinct pass that keeps the last row of each value
DistinctPassLast(d, files, schema, kek, name) ==
  LET vals == ColumnOfAll(d.rows, files, schema, kek, name)
  IN IF d.raised # "none" THEN d
     ELSE IF FirstRaised(vals) # "none" THEN [raised |-> FirstRaised(vals), rows |-> <<>>]
     ELSE [raised |-> "none",
           rows |-> Keep(d.rows, {i \in DOMAIN vals :
                                    \A j \in (i + 1)..Len(vals) : vals[j].val # vals[i].val})]

\* query.py 197-203: one distinct pass keeps the first row of each value; a
\* dict value cannot be put in the set (TypeError: unhashable)
DistinctPass(d, files, schema, kek, name) ==
  LET vals == ColumnOfAll(d.rows, files, schema, kek, name)
  IN IF d.raised # "none" THEN d
     ELSE IF FirstRaised(vals) # "none" THEN [raised |-> FirstRaised(vals), rows |-> <<>>]
     ELSE IF \E i \in DOMAIN vals : vals[i].val.t = "dict"
       THEN [raised |-> "TypeError", rows |-> <<>>]
     ELSE [raised |-> "none",
           rows |-> Keep(d.rows, {i \in DOMAIN vals :
                                    \A j \in 1..(i - 1) : vals[j].val # vals[i].val})]

\* query.py 205-209: data.sort(key=row[sort[0]], reverse=sort[1]), where
\* sort[1] is the flag Query.sort stored (True for "ASC"); a TypeError from
\* comparing the keys is swallowed.  The keys of one column are here all ints
\* or all None, so a failing sort fails on its first comparison, before it
\* has moved anything.
SortPass(d, files, schema, kek, entry) ==
  LET vals == ColumnOfAll(d.rows, files, schema, kek, entry[1])
  IN IF d.raised # "none" THEN d
     ELSE IF FirstRaised(vals) # "none" THEN [raised |-> FirstRaised(vals), rows |-> <<>>]
     ELSE IF \E i, j \in DOMAIN vals : i # j /\ ~Comparable(vals[i].val, vals[j].val)
       THEN d
     ELSE [raised |-> "none",
           rows |-> StableSort(d.rows, [i \in DOMAIN vals |-> vals[i].val.n], entry[2])]

\* the filter callbacks a caller may register: f1 keeps the rows whose
\* column a is 1, f2 those whose column b is 1
FilterCallback(cb, h, files, schema, kek) ==
  LET v == RowColumn(h, files, schema, kek, IF cb = "f1" THEN "a" ELSE "b")
  IN [raised |-> v.raised, val |-> v.val, m |-> v.val = PyInt(1)]

\* query.py 211-212: one filter pass
FilterPass(d, files, schema, kek, entry) ==
  LET res == [i \in DOMAIN d.rows |-> FilterCallback(entry[1], d.rows[i], files, schema, kek)]
  IN IF d.raised # "none" THEN d
     ELSE IF FirstRaised(res) # "none" THEN [raised |-> FirstRaised(res), rows |-> <<>>]
     ELSE [raised |-> "none", rows |-> Keep(d.rows, {i \in DOMAIN res : res[i].m})]

RECURSIVE DistinctStage(_, _, _, _, _)
DistinctStage(d, files, schema, kek, names) ==
  IF names = <<>> THEN d
  ELSE DistinctStage(DistinctPass(d, files, schema, kek, Head(names)), files, schema, kek,
                     Tail(names))
RECURSIVE SortStage(_, _, _, _, _)
SortStage(d, files, schema, kek, entries) ==
  IF entries = <<>> THEN d
  ELSE SortStage(SortPass(d, files, schema, kek, Head(entries)), files, schema, kek,
                 Tail(entries))
RECURSIVE FilterStage(_, _, _, _, _)
FilterStage(d, files, schema, kek, entries) ==
  IF entries = <<>> THEN d
  ELSE FilterStage(FilterPass(d, files, schema, kek, Head(entries)), files, schema, kek,
                   Tail(entries))

\* Query.fetch on a cache miss or with the cache disabled (query.py 165-212),
\* for a normalized descriptor with no join and no map clause: the list
\* before it is cached and sliced, or what fetch raises
FetchData(desc, files, schema, kek, ids) ==
  FilterStage(
    SortStage(
      DistinctStage(RowsStage(desc, files, schema, kek, ids), files, schema, kek,
                    desc.distinct),
      files, schema, kek, desc.sort),
    files, schema, kek, desc.filter)

\* Query.fetch on a cache miss (query.py 165-212) for a normalized descriptor
\* with no map clause, its join clauses on the given target table
FetchJoin(desc, files, schema, kek, ids, target) ==
  FilterStage(
    SortStage(
      DistinctStage(RowsStageJoin(desc, files, schema, kek, ids, target), files, schema,
                    kek, desc.distinct),
      files, schema, kek, desc.sort),
    files, schema, kek, desc.filter)

\* data[limit_start:limit_stop] (query.py 161-163, 217-219) with the default
\* self._limit = [0, None]: the whole list
SliceDefault(data) == data

\* self._limit = [start, stop]: open when stop is None
DefaultLimit == [start |-> 0, stop |-> 0, open |-> TRUE]
\* Query.limit (query.py 133-147): self._limit = [offset, max]
LimitOf(max, offset) == [start |-> offset, stop |-> max, open |-> FALSE]
\* data[start:stop] for start, stop >= 0 (query.py 161-163, 217-219)
Slice(data, limit) ==
  LET last == IF limit.open THEN Len(data) ELSE Min(limit.stop, Len(data))
  IN IF limit.start >= last THEN <<>>
     ELSE [k \in 1..(last - limit.start) |-> data[limit.start + k]]


(***************************************************************************)
(* The Query object of specification SpecQuery: builder calls, normalize   *)
(* and fetch with the cache disabled (no_cache), over a table whose rows   *)
(* do not change.                                                          *)
(***************************************************************************)
VARIABLES
  q,        \* self._query
  qready,   \* self._ready
  qcalls,   \* the builder calls made on the object, in order
  qfiles,   \* the row files of the table the query is on
  qorder,   \* the order in which Table.rows() listed the rows for the last fetch
  qlimit,   \* self._limit
  qout      \* what the last normalize/fetch raised, the list fetch returned (rows)
            \* and the list before the slice (full)

queryVars == <<q, qready, qcalls, qfiles, qorder, qlimit, qout>>

QIds == {"r1", "r2", "r3"}
\* a table whose rows all hold the int columns a and b
IntRow(a, b) == RowFile(<<"a", "b">>, <<JNumber(a), JNumber(b)>>)
QTables ==
  { [i \in QIds |-> CASE i = "r1" -> IntRow(1, 1) [] i = "r2" -> IntRow(1, 2)
                      [] i = "r3" -> IntRow(2, 1)],
    [i \in QIds |-> CASE i = "r1" -> IntRow(1, 2) [] i = "r2" -> IntRow(1, 1)
                      [] i = "r3" -> IntRow(0, 9)] }
\* its schema declares nothing and the database has no key
QSchema == <<>>
\* the table u that the join clauses name: two of its rows hold the same a
UIds == {"u1", "u2"}
UFiles == [i \in UIds |-> CASE i = "u1" -> IntRow(1, 7) [] i = "u2" -> IntRow(1, 8)]

\* the builder calls a caller may make
WhereCalls == {CWhere("a", "=", PyInt(1)), CWhere("a", "=", PyInt(2)),
               CWhere("b", "=", PyInt(1)), CWhere("a", ">", PyInt(1))}
SortCalls == {CSort(c, o) : c \in {"a", "b"}, o \in {"ASC", "DESC"}}
DistinctCalls == {CDistinct("a"), CDistinct("b")}
SelectCalls == {CSelect("a", "c"), CSelect("b", "c")}
FilterCalls == {CFilter("f1"), CFilter("f2")}
MapCalls == {CMap("m1"), CMap("m2")}
JoinCalls == {CJoin("u", "a", "=", "a", "u"), CJoin("u", "b", "=", "a", "u")}
BuilderCalls == WhereCalls \cup SortCalls \cup DistinctCalls \cup SelectCalls
                  \cup FilterCalls \cup MapCalls \cup JoinCalls

NoOut == [raised |-> "none", rows |-> <<>>, full |-> <<>>, uorder |-> <<>>, done |-> "nothing"]
\* the arguments a caller passes to limit
LimitMaxes == {0, 1}
LimitOffsets == {0, 1}

InitQuery ==
  /\ q = EmptyQuery
  /\ qready = FALSE
  /\ qcalls = <<>>
  /\ qfiles \in QTables
  /\ qorder = <<>>
  /\ qlimit = DefaultLimit
  /\ qout = NoOut

\* join, map, where, select, distinct, sort, filter (query.py 34-131) on a
\* Query that has not been normalized
BuilderCall(c) ==
  /\ ~qready
  /\ qout.done = "nothing"
  /\ Len(qcalls) < MaxCalls
  /\ q' = Apply(q, c)
  /\ qcalls' = Append(qcalls, c)
  /\ UNCHANGED <<qready, qfiles, qorder, qlimit, qout>>

\* Query.limit (query.py 133-147): ValueError for max < 1, which leaves the
\* object as it was
Limit(max, offset) ==
  /\ qout.done = "nothing"
  /\ qlimit' = IF max < 1 THEN qlimit ELSE LimitOf(max, offset)
  /\ UNCHANGED <<q, qready, qcalls, qfiles, qorder, qout>>

\* Query.normalize (query.py 221-262), called by the caller
NormalizeCall ==
  /\ ~qready
  /\ qout.done = "nothing"
  /\ LET n == Normalize(q)
     IN /\ qready' = (n.raised = "none")
        /\ q' = IF n.raised = "none" THEN n.desc ELSE q
        /\ qout' = [NoOut EXCEPT !.raised = n.raised, !.done = "normalize"]
  /\ UNCHANGED <<qcalls, qfiles, qorder, qlimit>>

\* the orders in which a directory listing (Path.iterdir, table.py 273-283)
\* may give the members of S
Orderings(S) == {p \in [1..Cardinality(S) -> S] : \A i, j \in DOMAIN p : i # j => p[i] # p[j]}

\* Query.fetch (query.py 154-219) after no_cache(), for a query with no map
\* clause: normalize, the pipeline, the slice.  order and uorder: the
\* listings of the base table and of the joined table u
Fetch(order, uorder) ==
  /\ qout.done \in {"nothing", "normalize"}
  /\ qout.raised = "none"
  /\ q.map = <<>>
  /\ LET n == IF qready THEN [raised |-> "none", desc |-> q] ELSE Normalize(q)
         d == FetchJoin(n.desc, qfiles, QSchema, NoKey, order, JoinTarget(UFiles, uorder))
     IN IF n.raised # "none"
          THEN /\ qout' = [NoOut EXCEPT !.raised = n.raised, !.done = "fetch"]
               /\ UNCHANGED <<q, qready>>
          ELSE /\ qout' = [raised |-> d.raised, rows |-> Slice(d.rows, qlimit),
                            full |-> d.rows,
                            uorder |-> IF n.desc.join = <<>> THEN <<>> ELSE uorder,
                            done |-> "fetch"]
               /\ q' = n.desc
               /\ qready' = TRUE
  /\ qorder' = order
  /\ UNCHANGED <<qcalls, qfiles, qlimit>>

\* Query.clear (query.py 271-277)
Clear ==
  /\ qout.done # "nothing"
  /\ q' = EmptyQuery
  /\ qready' = FALSE
  /\ qcalls' = <<>>
  /\ qorder' = <<>>
  /\ qlimit' = DefaultLimit
  /\ qout' = NoOut
  /\ UNCHANGED qfiles

NextQuery ==
  \/ \E c \in BuilderCalls : BuilderCall(c)
  \/ \E max \in LimitMaxes, offset \in LimitOffsets : Limit(max, offset)
  \/ NormalizeCall
  \/ \E order \in Orderings(QIds) : \E uorder \in Orderings(UIds) : Fetch(order, uorder)
  \/ Clear


(***************************************************************************)
(* The table of specification SpecTable: one table directory with its row  *)
(* files and its cache folder .cache/<table>, under Table.insert,          *)
(* Row.delete and cached Query.fetch, one call at a time.                  *)
(***************************************************************************)
VARIABLES
  tschema,    \* metadata["schema"] of the table
  tkek,       \* Database.kek()
  tfiles,     \* the row files <id>.ndjson of the table folder
  tcachedir,  \* whether the folder .cache/<table> exists
  tcache,     \* the cache files of that folder: Cache.file() name -> pickled list
  tlast       \* the last call: its arguments, what it found and how it ended

tableVars == <<tschema, tkek, tfiles, tcachedir, tcache, tlast>>

\* the schemas a table may have been created with
TSchemas ==
  { <<>>,
    ("a" :> Col("@integer", FALSE, TRUE)) @@ ("b" :> Col("@object", FALSE, FALSE)),
    ("a" :> Col("@integer", FALSE, FALSE)) @@ ("c" :> Col("@text", TRUE, FALSE)) }
Keks == {NoKey, "kek1", "kek2"}
\* the master key the table's DEK was made under (database.py 174-175)
DekKek == "kek1"
\* a row file with the encrypted column c, written by a working build and
\* brought into the table folder by Backup.load (backup.py 22-32)
RestoredRow == RowFile(<<"a", "c">>, <<JNumber(1), JString("<ciphertext>")>>)

\* the columns arguments a caller passes to insert (without "_id")
TCols ==
  { <<>>,
    ("a" :> PyInt(1)),
    ("b" :> PyStr("s")),
    ("a" :> PyInt(2)) @@ ("b" :> PyDict("int", 1, "s")) }

\* the queries a caller fetches: every row, and the rows with a = 1
TQueryCalls == << <<>>, <<CWhere("a", "=", PyInt(1))>> >>
TDesc(qi) == Normalize(ApplyAll(EmptyQuery, TQueryCalls[qi])).desc
TCacheFiles == {CacheFile(TDesc(qi)) : qi \in DOMAIN TQueryCalls}
NoEntry == [present |-> FALSE, rows |-> <<>>]
Entry(rows) == [present |-> TRUE, rows |-> rows]

\* the OSErrors one call may meet besides those of File.write: in
\* Cache.__init__'s mkdir (cache.py 27-30), in Cache.flush's rmtree (78-81),
\* in Cache.put's write_pickle (61-63), in Row.delete's unlink (row.py 91)
CacheFaults == {"mkdir", "rmtree"}

NoCall ==
  [op |-> "none", raised |-> "none", ret |-> "none", stem |-> "", pre |-> NoFile,
   enc |-> NoFile, cols |-> <<>>, qi |-> 0, hit |-> FALSE, rows |-> <<>>,
   id |-> NoId, name |-> "", val |-> PyNone, pairs |-> <<>>, readonly |-> FALSE,
   many |-> <<>>, ids |-> <<>>, status |-> <<>>]

InitTable ==
  /\ tschema \in TSchemas
  /\ tkek \in Keks
  /\ HasEncryptedColumns(tschema) \/ tkek = NoKey
  /\ tfiles \in {[i \in RowIds |-> NoFile]} \cup
                 (IF HasEncryptedColumns(tschema)
                    THEN {[i \in RowIds |-> IF i = "r1" THEN RestoredRow ELSE NoFile]}
                    ELSE {})
  /\ tcachedir = FALSE
  /\ tcache = [f \in TCacheFiles |-> NoEntry]
  /\ tlast = NoCall

\* Cache(table) then cache.flush() (cache.py 24-30, 74-81), as insert and
\* delete call them: "raised" when mkdir fails, else the folder and the files
\* left.  A failing rmtree may have removed any of the files (kept: the ones
\* it left); its False is dropped by both callers.
FlushOutcomes(fault) ==
  IF ~tcachedir /\ fault = "mkdir"
    THEN {[raised |-> "OSError", dir |-> FALSE, cache |-> tcache]}
  ELSE IF fault = "rmtree"
    THEN {[raised |-> "none", dir |-> TRUE,
           cache |-> [f \in TCacheFiles |-> IF f \in kept THEN tcache[f] ELSE NoEntry]] :
            kept \in SUBSET {f \in TCacheFiles : tcache[f].present}}
  ELSE {[raised |-> "none", dir |-> FALSE, cache |-> [f \in TCacheFiles |-> NoEntry]]}

\* an insert that flushes the table's cache before it looks at its columns
InsertFlushFirst(cols, idArg, newid) ==
  /\ idArg # NoId \/ ~tfiles[newid].exists
  /\ tcachedir' = FALSE
  /\ tcache' = [f \in TCacheFiles |-> NoEntry]
  /\ LET e == InsertEval(tschema, tkek, cols, idArg, newid)
     IN /\ tlast' = [NoCall EXCEPT !.op = "insert", !.stem = newid, !.cols = cols,
                                   !.id = idArg, !.enc = e.file, !.raised = e.raised,
                                   !.ret = IF e.raised = "none" THEN "True" ELSE "none"]
        /\ tfiles' = IF e.raised = "none" THEN [tfiles EXCEPT ![newid] = e.file] ELSE tfiles
  /\ UNCHANGED <<tschema, tkek>>

\* an id draw that takes the first id, in use or not
AnyId(files, id) == TRUE

\* the id insert draws (table.py 185-187): drawn again while a row file of
\* that name exists
FreshId(files, id) == ~files[id].exists

\* Table.insert (table.py 157-247); one OSError at most strikes the call, in
\* File.write or in the cache folder
Insert(cols, idArg, newid) ==
  /\ idArg # NoId \/ FreshId(tfiles, newid)
  /\ idArg # NoId => newid = idArg
  /\ LET e == InsertEval(tschema, tkek, cols, idArg, newid)
         call == [NoCall EXCEPT !.op = "insert", !.stem = newid, !.pre = tfiles[newid],
                                !.enc = e.file, !.cols = cols, !.id = idArg]
     IN IF e.raised # "none"
          THEN /\ tlast' = [call EXCEPT !.raised = e.raised]
               /\ UNCHANGED <<tfiles, tcachedir, tcache>>
          ELSE \E w \in WriteOutcomes :
               /\ tfiles' = IF w.replaced THEN [tfiles EXCEPT ![newid] = e.file]
                            ELSE tfiles
               /\ IF ~w.returned
                    THEN /\ tlast' = [call EXCEPT !.ret = "False"]
                         /\ UNCHANGED <<tcachedir, tcache>>
                    ELSE \E fault \in {"none"} \cup CacheFaults : \E o \in FlushOutcomes(fault) :
                           /\ tcachedir' = o.dir
                           /\ tcache' = o.cache
                           /\ tlast' = IF o.raised # "none"
                                         THEN [call EXCEPT !.raised = o.raised]
                                         ELSE [call EXCEPT !.ret = "True"]
  /\ UNCHANGED <<tschema, tkek>>

\* Table.insert without "_id" when the process dies after File.write has
\* replaced the row file (table.py 239-241) and before cache.flush() (242-245)
InsertCrash(cols, newid) ==
  /\ ~tfiles[newid].exists
  /\ LET e == InsertEval(tschema, tkek, cols, NoId, newid)
     IN /\ e.raised = "none"
        /\ tfiles' = [tfiles EXCEPT ![newid] = e.file]
        /\ tlast' = [NoCall EXCEPT !.op = "crash", !.stem = newid, !.pre = tfiles[newid],
                                   !.enc = e.file, !.cols = cols]
  /\ UNCHANGED <<tschema, tkek, tcachedir, tcache>>

\* Table.insert_many (table.py 249-262) on a list of two column sets without
\* "_id": insert on each in turn, its result appended to the status list;
\* what an insert raises leaves insert_many at once.  id1, id2: the ids the
\* two inserts draw; w1, w2: the outcomes of their File.write (the cache
\* folder meets no OSError here).
InsertMany(c1, c2, id1, id2, w1, w2) ==
  /\ id1 # id2 /\ ~tfiles[id1].exists /\ ~tfiles[id2].exists
  /\ LET e1 == InsertEval(tschema, tkek, c1, NoId, id1)
         e2 == InsertEval(tschema, tkek, c2, NoId, id2)
         call == [NoCall EXCEPT !.op = "insert_many", !.many = <<c1, c2>>, !.ids = <<id1, id2>>]
         files1 == IF w1.replaced THEN [tfiles EXCEPT ![id1] = e1.file] ELSE tfiles
         files2 == IF w2.replaced THEN [files1 EXCEPT ![id2] = e2.file] ELSE files1
         flushed == [f \in TCacheFiles |-> NoEntry]
     IN IF e1.raised # "none"
          THEN /\ tlast' = [call EXCEPT !.raised = e1.raised]
               /\ UNCHANGED <<tfiles, tcachedir, tcache>>
        ELSE IF e2.raised # "none"
          THEN /\ tlast' = [call EXCEPT !.raised = e2.raised, !.status = <<w1.returned>>]
               /\ tfiles' = files1
               /\ tcachedir' = IF w1.returned THEN FALSE ELSE tcachedir
               /\ tcache' = IF w1.returned THEN flushed ELSE tcache
        ELSE /\ tlast' = [call EXCEPT !.ret = "list", !.status = <<w1.returned, w2.returned>>]
             /\ tfiles' = files2
             /\ tcachedir' = IF w1.returned \/ w2.returned THEN FALSE ELSE tcachedir
             /\ tcache' = IF w1.returned \/ w2.returned THEN flushed ELSE tcache
  /\ UNCHANGED <<tschema, tkek>>

\* Row.delete (row.py 85-97) on table.row(id), not read-only
Delete(id) ==
  /\ LET call == [NoCall EXCEPT !.op = "delete", !.stem = id]
     IN \E fault \in {"none", "unlink"} \cup CacheFaults :
        IF ~tfiles[id].exists \/ fault = "unlink"
          THEN /\ tlast' = [call EXCEPT !.ret = "False"]
               /\ UNCHANGED <<tfiles, tcachedir, tcache>>
          ELSE /\ tfiles' = [tfiles EXCEPT ![id] = NoFile]
               /\ \E o \in FlushOutcomes(fault) :
                    /\ tcachedir' = o.dir
                    /\ tcache' = o.cache
                    /\ tlast' = [call EXCEPT !.ret = IF o.raised # "none" THEN "False"
                                                     ELSE "True"]
  /\ UNCHANGED <<tschema, tkek>>

\* Query.fetch (query.py 154-219) with the cache on and the default limit,
\* for the query TQueryCalls[qi]; order: the listing Table.rows() gets;
\* mkdirFails: Cache.__init__'s mkdir, if called, raises OSError; put: the
\* outcome of the write_pickle behind Cache.put, whose result fetch drops
CachedFetch(qi, order, mkdirFails, put) ==
  /\ LET desc == TDesc(qi)
         file == CacheFile(desc)
         call == [NoCall EXCEPT !.op = "fetch", !.qi = qi]
         d == FetchData(desc, tfiles, tschema, tkek, order)
     IN IF ~tcachedir /\ mkdirFails
          THEN /\ tlast' = [call EXCEPT !.raised = "OSError"]
               /\ UNCHANGED <<tcachedir, tcache>>
        ELSE IF tcachedir /\ tcache[file].present
          THEN /\ tlast' = [call EXCEPT !.ret = "list", !.hit = TRUE,
                                        !.rows = SliceDefault(tcache[file].rows)]
               /\ UNCHANGED <<tcachedir, tcache>>
        ELSE IF d.raised # "none"
          THEN /\ tlast' = [call EXCEPT !.raised = d.raised]
               /\ tcachedir' = TRUE
               /\ UNCHANGED tcache
        ELSE /\ tlast' = [call EXCEPT !.ret = "list", !.rows = SliceDefault(d.rows)]
             /\ tcachedir' = TRUE
             /\ tcache' = IF d.rows # <<>> /\ put.replaced
                            THEN [tcache EXCEPT ![file] = Entry(d.rows)]
                            ELSE tcache
  /\ UNCHANGED <<tschema, tkek, tfiles>>

\* Row.readonly (row.py 114-116) then Row.delete (85-88) on table.row(id)
DeleteReadonly(id) ==
  /\ tlast' = [NoCall EXCEPT !.op = "delete", !.stem = id, !.readonly = TRUE,
                             !.ret = "False"]
  /\ UNCHANGED <<tschema, tkek, tfiles, tcachedir, tcache>>

\* row[name] on table.row(id) (row.py 33-39, 125-154)
ReadColumn(id, name) ==
  /\ LET r == RowColumn(Handle(id), tfiles, tschema, tkek, name)
     IN tlast' = [NoCall EXCEPT !.op = "column", !.stem = id, !.name = name,
                                !.raised = r.raised, !.val = r.val]
  /\ UNCHANGED <<tschema, tkek, tfiles, tcachedir, tcache>>

\* list(table.row(id).columns()) (row.py 156-189)
ReadColumns(id) ==
  /\ LET r == RowColumns(tfiles, tschema, tkek, id)
     IN tlast' = [NoCall EXCEPT !.op = "columns", !.stem = id,
                                !.raised = r.raised, !.pairs = r.pairs]
  /\ UNCHANGED <<tschema, tkek, tfiles, tcachedir, tcache>>

ExistingRows == {i \in RowIds : tfiles[i].exists}

NextTable ==
  \/ \E cols \in TCols, idArg \in {NoId, "r1"}, newid \in RowIds : Insert(cols, idArg, newid)
  \/ \E c1 \in TCols, c2 \in TCols, id1 \in RowIds, id2 \in RowIds,
        w1 \in WriteOutcomes, w2 \in WriteOutcomes : InsertMany(c1, c2, id1, id2, w1, w2)
  \/ \E cols \in TCols, newid \in RowIds : InsertCrash(cols, newid)
  \/ \E id \in RowIds : Delete(id)
  \/ \E id \in RowIds : DeleteReadonly(id)
  \/ \E id \in RowIds, name \in {"a", "c"} : ReadColumn(id, name)
  \/ \E id \in RowIds : ReadColumns(id)
  \/ \E qi \in DOMAIN TQueryCalls, order \in Orderings(ExistingRows),
        mkdirFails \in BOOLEAN, put \in WriteOutcomes :
       CachedFetch(qi, order, mkdirFails, put)

(***************************************************************************)
(* The cache file of specification SpecCache: one cache file, stamped with *)
(* its creation time, probed by Cache objects built with an expiration.    *)
(***************************************************************************)
VARIABLES
  cnow,       \* the clock
  cbirth,     \* the creation time of the cache file, NoCacheFile when there is none
  cbirthtime, \* whether os.stat_result has st_birthtime on this platform
  clast       \* the last call on a Cache object

cacheVars == <<cnow, cbirth, cbirthtime, clast>>

NoCacheFile == -1
\* expiration = None (cache.py 9)
NoExpiration == -1
Expirations == {NoExpiration} \cup (0..(MaxTime + 1))
NoProbe == [op |-> "none", expiration |-> NoExpiration, at |-> 0, birth |-> NoCacheFile,
            raised |-> "none", ret |-> "none"]

InitCache ==
  /\ cnow = 0
  /\ cbirth = NoCacheFile
  /\ cbirthtime \in BOOLEAN
  /\ clast = NoProbe

\* time passes
Tick ==
  /\ cnow < MaxTime
  /\ cnow' = cnow + 1
  /\ UNCHANGED <<cbirth, cbirthtime, clast>>

\* Cache.put (cache.py 51-62): write_pickle renames a file created now onto
\* the cache file, or fails before the rename
CachePut(fault) ==
  /\ cbirth' = IF WriteReplaces(fault) THEN cnow ELSE cbirth
  /\ clast' = [NoProbe EXCEPT !.op = "put", !.at = cnow, !.birth = cbirth,
                              !.ret = IF WriteReturns(fault) THEN "True" ELSE "False"]
  /\ UNCHANGED <<cnow, cbirthtime>>

\* Cache.valid (cache.py 38-49) on a Cache built with the given expiration
CacheValid(expiration) ==
  /\ LET call == [NoProbe EXCEPT !.op = "valid", !.expiration = expiration,
                                 !.at = cnow, !.birth = cbirth]
     IN IF cbirth = NoCacheFile
          THEN /\ clast' = [call EXCEPT !.ret = "False"]
               /\ UNCHANGED cbirth
        ELSE IF expiration = NoExpiration
          THEN /\ clast' = [call EXCEPT !.ret = "True"]
               /\ UNCHANGED cbirth
        ELSE IF ~cbirthtime
          THEN /\ clast' = [call EXCEPT !.raised = "AttributeError"]
               /\ UNCHANGED cbirth
        ELSE IF cbirth > expiration
          THEN /\ clast' = [call EXCEPT !.ret = "False"]
               /\ cbirth' = NoCacheFile
        ELSE /\ clast' = [call EXCEPT !.ret = "True"]
             /\ UNCHANGED cbirth
  /\ UNCHANGED <<cnow, cbirthtime>>

NextCache ==
  \/ Tick
  \/ \E fault \in WriteFaults : CachePut(fault)
  \/ \E expiration \in Expirations : CacheValid(expiration)

(***************************************************************************)
(* SpecRow: the rows a select query returned, read by the caller.          *)
(***************************************************************************)
VARIABLES
  rfiles,   \* the table's row files
  rsel,     \* the (column, new name) of the select clause fetched with, <<>> before the fetch
  rrows,    \* the list fetch returned: the Row objects the caller holds
  rlast     \* the caller's last read of one of them

rowVars == <<rfiles, rsel, rrows, rlast>>

\* the column names a caller reads, and the positions of the returned list
\* whose row it reads (the list comes in every listing order)
ReadNames == {"a", "b", "c"}
ReadPositions == {1}
NoRead == [op |-> "none", k |-> 0, name |-> "", val |-> PyNone, pairs |-> <<>>,
           cop |-> "", raised |-> "none", m |-> FALSE, done |-> FALSE,
           hi |-> PyNone]
\* the criteria a caller gives a Where object: a stored column or one no row
\* has, a supported operator or one match() does not know
MatchNames == {"a", "z"}
MatchOperators == {"=", "!=", "~"}
MatchValues == {PyNone, PyInt(1)}
\* the range criteria a caller gives: [lo, hi] with lo <= hi
RangeOperators == {"between", "not between"}
RangeBounds == {<<1, 1>>, <<1, 2>>, <<2, 2>>}

InitRow ==
  /\ rfiles \in QTables
  /\ rsel = <<>>
  /\ rrows = <<>>
  /\ rlast = NoRead

\* Row.columns() iterated to its end (row.py 156-187) on a table with no
\* schema: keys is the cached header list itself, so the del keys[0] of each
\* turn removes the name from the cache; the pairs yielded, then the overlay
\* and the id
ColumnsOf(h, files) ==
  LET keys == RowSchema(h, files)
      values == files[h.id].values
      n == Min(Len(keys), Len(values))
      customNames == SortedNames(DOMAIN h.custom)
  IN [pairs |-> [i \in 1..n |-> <<keys[i], JsonLoads(values[i])>>]
                 \o [i \in DOMAIN customNames |-> <<customNames[i], h.custom[customNames[i]]>>]
                 \o << <<"_id", PyStr(h.id)>> >>,
      h |-> [h EXCEPT !.hdr = SubSeq(keys, n + 1, Len(keys))]]

\* rsel after a fetch with no select clause
NoSelect == <<"", "">>
\* Row.columns() abandoned after the caller took `taken` items
\* (row.py 156-187): the generator rests at a yield, and the del keys[0] of a
\* turn runs only when the next item is asked for, so taken - 1 names (at
\* most all of them) are gone from the cached header
ColumnsTaken(h, files, taken) ==
  LET keys == RowSchema(h, files)
      n == Min(Len(keys), Len(files[h.id].values))
      full == ColumnsOf(h, files)
      gone == Min(taken - 1, n)
  IN IF taken >= Len(full.pairs) THEN full
     ELSE [pairs |-> SubSeq(full.pairs, 1, taken),
           h |-> [h EXCEPT !.hdr = SubSeq(keys, gone + 1, Len(keys))]]
\* how many items a caller takes from one columns() call
Takes == 1..3

\* fetch() without cache on a fresh Query with no clause
PlainFetch(order) ==
  /\ rsel = <<>>
  /\ LET d == FetchData(Normalize(EmptyQuery).desc, rfiles, QSchema, NoKey, order)
     IN /\ d.raised = "none"
        /\ rrows' = d.rows
  /\ rsel' = NoSelect
  /\ UNCHANGED <<rfiles, rlast>>

\* query.select(c.col, c.new) then fetch() without cache on a fresh Query
SelectFetch(c, order) ==
  /\ rsel = <<>>
  /\ LET n == Normalize(Apply(EmptyQuery, c))
         d == FetchData(n.desc, rfiles, QSchema, NoKey, order)
     IN /\ n.raised = "none" /\ d.raised = "none"
        /\ rrows' = d.rows
  /\ rsel' = <<c.col, c.new>>
  /\ UNCHANGED <<rfiles, rlast>>

\* row.columns() on the k-th returned row, iterated until the caller has
\* taken `taken` items or the generator ends
IterColumns(k, taken) ==
  /\ k \in DOMAIN rrows
  /\ LET r == ColumnsTaken(rrows[k], rfiles, taken)
     IN /\ rrows' = [rrows EXCEPT ![k] = r.h]
        /\ rlast' = [NoRead EXCEPT !.op = "columns", !.k = k, !.pairs = r.pairs,
                                   !.done = (r = ColumnsOf(rrows[k], rfiles))]
  /\ UNCHANGED <<rfiles, rsel>>

\* row[name] on the k-th returned row (row.py 33-39, 125-154); schema()
\* (118-123) refills an empty header cache from the file
GetItem(k, name) ==
  /\ k \in DOMAIN rrows
  /\ rrows' = [rrows EXCEPT ![k] = Loaded(@, rfiles)]
  /\ rlast' = [NoRead EXCEPT !.op = "item", !.k = k, !.name = name,
                             !.val = RowColumn(rrows[k], rfiles, QSchema, NoKey, name).val]
  /\ UNCHANGED <<rfiles, rsel>>

\* Where(row).criteria(name, op, value) then match() (query.py 350-421) on
\* the k-th returned row; row[name] caches the header
Match(k, name, op, value) ==
  /\ k \in DOMAIN rrows
  /\ LET r == WhereMatch(rrows[k], rfiles, QSchema, NoKey, <<name, <<op, value>> >>)
     IN rlast' = [NoRead EXCEPT !.op = "match", !.k = k, !.name = name, !.cop = op,
                                !.val = value, !.raised = r.raised, !.m = r.m]
  /\ rrows' = [rrows EXCEPT ![k] = Loaded(@, rfiles)]
  /\ UNCHANGED <<rfiles, rsel>>

\* Where(row).criteria(name, op, [lo, hi]) then match() on the k-th
\* returned row
MatchRange(k, name, op, bounds) ==
  /\ k \in DOMAIN rrows
  /\ LET rv == RowColumn(rrows[k], rfiles, QSchema, NoKey, name)
         lo == PyInt(bounds[1])
         hi == PyInt(bounds[2])
     IN rlast' = [NoRead EXCEPT !.op = "range", !.k = k, !.name = name, !.cop = op,
                                !.val = lo, !.hi = hi, !.raised = rv.raised,
                                !.m = IF rv.raised # "none" THEN FALSE
                                      ELSE WhereMatchRange(rv.val, op, lo, hi)]
  /\ rrows' = [rrows EXCEPT ![k] = Loaded(@, rfiles)]
  /\ UNCHANGED <<rfiles, rsel>>

\* a backup archive holds row r1 with one more column, sorted before a
ArchiveId == "r1"
ArchiveRow == RowFile(<<"A", "a", "b">>, <<JNumber(7), JNumber(8), JNumber(9)>>)
\* Backup.load (backup.py 22-32): extractall writes the archive's row file
\* over the one in the table directory
Load ==
  /\ rfiles[ArchiveId] # ArchiveRow
  /\ rfiles' = [rfiles EXCEPT ![ArchiveId] = ArchiveRow]
  /\ UNCHANGED <<rsel, rrows, rlast>>

\* the caller drops the list and builds a new Query
Release ==
  /\ rsel # <<>>
  /\ rsel' = <<>>
  /\ rrows' = <<>>
  /\ rlast' = NoRead
  /\ UNCHANGED rfiles

NextRow ==
  \/ \E c \in SelectCalls : \E order \in Orderings(QIds) : SelectFetch(c, order)
  \/ \E order \in Orderings(QIds) : PlainFetch(order)
  \/ \E k \in ReadPositions : \E taken \in Takes : IterColumns(k, taken)
  \/ \E k \in ReadPositions : \E name \in ReadNames : GetItem(k, name)
  \/ \E k \in ReadPositions : \E name \in MatchNames : \E op \in MatchOperators :
       \E value \in MatchValues : Match(k, name, op, value)
  \/ \E k \in ReadPositions, op \in RangeOperators, bounds \in RangeBounds :
       MatchRange(k, "a", op, bounds)
  \/ Load
  \/ Release

(***************************************************************************)
(* The Schema object of specification SpecSchema: the object a             *)
(* create_table callback builds with add and remove, Schema.valid on it,   *)
(* and the metadata Database.create_table persists from it.                *)
(***************************************************************************)
VARIABLES
  sdefs,     \* Schema._schema: declared column -> its options
  sflag,     \* Schema._has_encrypted_columns
  sbroken,   \* the callback has raised
  skek,      \* Database._kek
  smeta,     \* the table's .metadata file
  slast      \* the last call and how it ended

schemaVars == <<sdefs, sflag, sbroken, skek, smeta, slast>>

\* the columns a callback declares, the type names it passes, the
\* enum_values it passes with an enum type, the values a caller validates
SNames == {"_id", "c"}
STypes == {"@text", "@enum", "enum"}
EnumTypes == {"@enum", "enum"}
DeclaredEnum == {PyStr("x")}
SValues == {PyNone, PyStr("x"), PyStr("y"), PyInt(1)}
\* the DEK Crypto.random_dek returns (crypto.py 18-29)
RandomDek == "<dek>"

NoMeta == [exists |-> FALSE, schema |-> <<>>, dek |-> ""]
NoSchemaCall == [op |-> "none", name |-> "", type |-> "", val |-> PyNone,
                 ret |-> FALSE, raised |-> "none"]

InitSchema ==
  /\ sdefs = <<>>
  /\ sflag = FALSE
  /\ sbroken = FALSE
  /\ skek \in {NoKey, DekKek}
  /\ smeta = NoMeta
  /\ slast = NoSchemaCall

\* schema.add(name, typename, encrypted=, required=[, enum_values=]) in the
\* callback of create_table; an exception ends the callback
Add(name, typename, encrypted, required) ==
  /\ ~sbroken /\ ~smeta.exists
  /\ LET e == SchemaAdd(sdefs, sflag, name, typename, encrypted, required,
                        IF typename \in EnumTypes THEN DeclaredEnum ELSE NoEnum)
     IN /\ sdefs' = e.defs
        /\ sflag' = e.flag
        /\ sbroken' = (e.raised # "none")
        /\ slast' = [NoSchemaCall EXCEPT !.op = "add", !.name = name,
                                         !.type = typename, !.raised = e.raised]
  /\ UNCHANGED <<skek, smeta>>

\* schema.remove(name) in the callback
Remove(name) ==
  /\ ~sbroken /\ ~smeta.exists
  /\ sdefs' = SchemaRemove(sdefs, name)
  /\ slast' = [NoSchemaCall EXCEPT !.op = "remove", !.name = name]
  /\ UNCHANGED <<sflag, sbroken, skek, smeta>>

\* schema.valid(name, value) on the object as built so far
Valid(name, value) ==
  /\ ~sbroken /\ ~smeta.exists
  /\ slast' = [NoSchemaCall EXCEPT !.op = "valid", !.name = name, !.val = value,
                                   !.ret = SchemaValid(sdefs, name, value)]
  /\ UNCHANGED <<sdefs, sflag, sbroken, skek, smeta>>

\* Database.create_table (database.py 148-197) with the object the callback
\* built, or Schema() when the callback raised (154-157).  The flag is read
\* (164) and the DEK drawn (173-177) before "_id" is removed (179).
\* written: what File.write_json returns (190); on False the folder is
\* removed again.  The next call's callback starts from a new Schema().
CreateTable(written) ==
  /\ ~smeta.exists
  /\ LET defs == IF sbroken THEN <<>> ELSE sdefs
         flag == IF sbroken THEN FALSE ELSE sflag
     IN IF flag /\ skek = NoKey
          THEN /\ slast' = [NoSchemaCall EXCEPT !.op = "create", !.raised = "ValueError"]
               /\ smeta' = smeta
          ELSE /\ smeta' = IF written
                             THEN [exists |-> TRUE, schema |-> SchemaRemove(defs, "_id"),
                                   dek |-> IF flag THEN RandomDek ELSE ""]
                             ELSE NoMeta
               /\ slast' = [NoSchemaCall EXCEPT !.op = "create", !.ret = written]
  /\ sdefs' = <<>> /\ sflag' = FALSE /\ sbroken' = FALSE
  /\ UNCHANGED skek

\* Table.alter (table.py 128-155): line 149 reads the name File, which
\* table.py never imports at module level, so the call raises NameError
\* before it reads or writes the metadata; the callback's object is dropped
Alter ==
  /\ smeta.exists
  /\ slast' = [NoSchemaCall EXCEPT !.op = "alter", !.raised = "NameError"]
  /\ UNCHANGED <<sdefs, sflag, sbroken, skek, smeta>>

NextSchema ==
  \/ \E name \in SNames, typename \in STypes, encrypted \in BOOLEAN, required \in BOOLEAN :
       Add(name, typename, encrypted, required)
  \/ \E name \in SNames : Remove(name)
  \/ \E name \in SNames, value \in SValues : Valid(name, value)
  \/ \E written \in BOOLEAN : CreateTable(written)
  \/ Alter

(***************************************************************************)
(* The threads of specification SpecRace: cached Query.fetch calls of one  *)
(* query (every row, default limit) and one thread that inserts and        *)
(* deletes rows, on the same table, interleaved at the file system calls   *)
(* that matter: the row listing, the cache file's replace, and the listing,*)
(* the unlinks and the rmdir of shutil.rmtree.  No call meets an I/O fault.*)
(***************************************************************************)
VARIABLES
  xfiles,   \* the ids of the row files in the table folder
  xdir,     \* whether the folder .cache/<table> exists
  xcache,   \* the cache file of the query: the ids of the pickled list
  xfetch,   \* fetching thread -> where it is and the list it has built
  xmut,     \* the mutating thread: where it is in insert or delete
  xlast     \* the last fetch that returned from the cache

raceVars == <<xfiles, xdir, xcache, xfetch, xmut, xlast>>

Fetchers == {"f1", "f2"}
\* no cache file, and a cache file with the pickled list of these rows
NoResult == [present |-> FALSE, rows |-> {}]
Result(rows) == [present |-> TRUE, rows |-> rows]
IdleFetch == [pc |-> "idle", data |-> {}]
IdleMut == [pc |-> "idle", op |-> "none", listed |-> FALSE]
NoHit == [hit |-> FALSE, rows |-> {}, table |-> {}, quiet |-> FALSE]

InitRace ==
  /\ xfiles \in {{"r1"}, {"r1", "r2"}}
  /\ xdir = FALSE
  /\ xcache = NoResult
  /\ xfetch = [f \in Fetchers |-> IdleFetch]
  /\ xmut = IdleMut
  /\ xlast = NoHit

\* Query.fetch up to the end of the row loop (query.py 156-195):
\* Cache.__init__ makes the folder when it is missing (cache.py 26-28);
\* when the cache file exists, valid() is True (38-44, no expiration) and
\* fetch returns cache.get(); else the rows are listed and the list built
FetchBegin(f) ==
  /\ xfetch[f].pc = "idle"
  /\ xdir' = TRUE
  /\ IF xdir /\ xcache.present
       THEN /\ xlast' = [hit |-> TRUE, rows |-> xcache.rows, table |-> xfiles,
                         quiet |-> xmut.pc = "idle"
                                   /\ \A g \in Fetchers : xfetch[g].pc = "idle"]
            /\ UNCHANGED xfetch
       ELSE /\ xfetch' = [xfetch EXCEPT ![f] = [pc |-> "read", data |-> xfiles]]
            /\ UNCHANGED xlast
  /\ UNCHANGED <<xfiles, xcache, xmut>>

\* the end of Query.fetch (query.py 214-219): cache.put(data) for a list
\* that is not empty; File.write_pickle makes no folder, so the write fails
\* (False, dropped by fetch) when the folder is gone
FetchPut(f) ==
  /\ xfetch[f].pc = "read"
  /\ xcache' = IF xfetch[f].data # {} /\ xdir THEN Result(xfetch[f].data) ELSE xcache
  /\ xfetch' = [xfetch EXCEPT ![f] = IdleFetch]
  /\ UNCHANGED <<xfiles, xdir, xmut, xlast>>

\* Table.insert without "_id", the write of the new row file (table.py
\* 239-241); id: the id drawn, which names no existing file
InsertWrite(id) ==
  /\ xmut.pc = "idle"
  /\ id \notin xfiles
  /\ xfiles' = xfiles \cup {id}
  /\ xmut' = [pc |-> "written", op |-> "insert", listed |-> FALSE]
  /\ UNCHANGED <<xdir, xcache, xfetch, xlast>>

\* Row.delete, the unlink of the row file (row.py 90-91)
DeleteUnlink(id) ==
  /\ xmut.pc = "idle"
  /\ id \in xfiles
  /\ xfiles' = xfiles \ {id}
  /\ xmut' = [pc |-> "written", op |-> "delete", listed |-> FALSE]
  /\ UNCHANGED <<xdir, xcache, xfetch, xlast>>

\* Cache(table) then the start of cache.flush() (table.py 243-245, row.py
\* 92-94, cache.py 24-30, 76-78): the folder is made when missing, and
\* rmtree lists its entries
FlushList ==
  /\ xmut.pc = "written"
  /\ xdir' = TRUE
  /\ xmut' = [xmut EXCEPT !.pc = "listed", !.listed = (xdir /\ xcache.present)]
  /\ UNCHANGED <<xfiles, xcache, xfetch, xlast>>

\* rmtree unlinks the entries it listed
FlushUnlink ==
  /\ xmut.pc = "listed"
  /\ xcache' = IF xmut.listed THEN NoResult ELSE xcache
  /\ xmut' = [xmut EXCEPT !.pc = "unlinked"]
  /\ UNCHANGED <<xfiles, xdir, xfetch, xlast>>

\* rmtree removes the folder; rmdir raises OSError on a folder that is not
\* empty, flush returns False (cache.py 80-81) and insert and delete drop
\* that result (table.py 245-247, row.py 94-95)
FlushRmdir ==
  /\ xmut.pc = "unlinked"
  /\ xdir' = xcache.present
  /\ xmut' = IdleMut
  /\ UNCHANGED <<xfiles, xcache, xfetch, xlast>>

NextRace ==
  \/ \E f \in Fetchers : FetchBegin(f)
  \/ \E f \in Fetchers : FetchPut(f)
  \/ \E id \in RowIds : InsertWrite(id)
  \/ \E id \in RowIds : DeleteUnlink(id)
  \/ FlushList
  \/ FlushUnlink
  \/ FlushRmdir

(***************************************************************************)
(* The two tables of specification SpecJoin: a cached query on table t     *)
(* that joins table u, while rows of u are inserted and deleted.           *)
(***************************************************************************)
VARIABLES
  jufiles,  \* the row files of table u
  judir,    \* whether the folder .cache/u exists
  jadir,    \* whether the folder .cache/t exists
  jacache,  \* the cache file of the query in .cache/t
  jlast     \* the last call

joinVars == <<jufiles, judir, jadir, jacache, jlast>>

\* table t, which no call changes, and the query fetched on it
JFiles == CHOOSE t \in QTables : t["r3"] = IntRow(2, 1)
JDesc == Normalize(ApplyAll(EmptyQuery, <<CJoin("u", "a", "=", "a", "u")>>)).desc
\* the columns a caller inserts into u
UCols == { ("a" :> PyInt(1)) @@ ("b" :> PyInt(7)),
           ("a" :> PyInt(1)) @@ ("b" :> PyInt(8)),
           ("a" :> PyInt(2)) @@ ("b" :> PyInt(7)) }
\* after: the call before it
NoJoinCall == [op |-> "none", after |-> "none", hit |-> FALSE, rows |-> <<>>]

InitJoin ==
  /\ jufiles \in {[i \in UIds |-> NoFile], UFiles}
  /\ judir = FALSE
  /\ jadir = FALSE
  /\ jacache = NoEntry
  /\ jlast = NoJoinCall

UExisting == {i \in UIds : jufiles[i].exists}
\* what the query returns with no_cache(), in every listing order
JFresh ==
  {FetchJoin(JDesc, JFiles, QSchema, NoKey, order, JoinTarget(jufiles, uorder)).rows :
     order \in Orderings(QIds), uorder \in Orderings(UExisting)}

\* Query.fetch (query.py 154-219) of the join query on t with the cache on
\* and the default limit: Cache(*self.identifier()) is the cache of table t
\* (cache.py 20-25)
JoinFetch(order, uorder) ==
  /\ jadir' = TRUE
  /\ IF jadir /\ jacache.present
       THEN /\ jlast' = [op |-> "fetch", after |-> jlast.op, hit |-> TRUE,
                         rows |-> SliceDefault(jacache.rows)]
            /\ UNCHANGED jacache
       ELSE LET d == FetchJoin(JDesc, JFiles, QSchema, NoKey, order,
                               JoinTarget(jufiles, uorder))
            IN /\ jlast' = [op |-> "fetch", after |-> jlast.op, hit |-> FALSE,
                            rows |-> SliceDefault(d.rows)]
               /\ jacache' = IF d.rows # <<>> THEN Entry(d.rows) ELSE jacache
  /\ UNCHANGED <<jufiles, judir>>

\* Table.insert on u without "_id" (table.py 157-247): Cache(self) is the
\* cache of table u, the one flush() removes
UInsert(cols, newid) ==
  /\ ~jufiles[newid].exists
  /\ LET e == InsertEval(<<>>, NoKey, cols, NoId, newid)
     IN jufiles' = [jufiles EXCEPT ![newid] = e.file]
  /\ judir' = FALSE
  /\ jlast' = [NoJoinCall EXCEPT !.op = "insert", !.after = jlast.op]
  /\ UNCHANGED <<jadir, jacache>>

\* Row.delete on a row of u (row.py 85-97)
UDelete(id) ==
  /\ jufiles[id].exists
  /\ jufiles' = [jufiles EXCEPT ![id] = NoFile]
  /\ judir' = FALSE
  /\ jlast' = [NoJoinCall EXCEPT !.op = "delete", !.after = jlast.op]
  /\ UNCHANGED <<jadir, jacache>>

NextJoin ==
  \/ \E order \in Orderings(QIds), uorder \in Orderings(UExisting) : JoinFetch(order, uorder)
  \/ \E cols \in UCols, newid \in UIds : UInsert(cols, newid)
  \/ \E id \in UIds : UDelete(id)

NextFile ==
  \/ \E n \in Lengths, h \in RandomIds : Begin(n, h)
  \/ OpenOk
  \/ OpenFail
  \/ WriteChunk
  \/ WriteFail
  \/ FsyncOk
  \/ FsyncFail
  \/ ReplaceOk
  \/ ReplaceFail
  \/ DirFsyncOk
  \/ DirFsyncFail
  \/ Except
  \/ Crash
  \/ \E r \in Readers : ReadOpen(r)
  \/ \E r \in Readers : ReadChunk(r)
  \/ \E r \in Readers : ReadReturn(r)

\* one table and a fresh Query object, for the specifications that leave
\* them alone
QuietQuery ==
  /\ q = EmptyQuery /\ qready = FALSE /\ qcalls = <<>> /\ qorder = <<>> /\ qout = NoOut
  /\ qlimit = DefaultLimit
  /\ qfiles = CHOOSE t \in QTables : TRUE
\* no target file and an idle writer and reader
QuietFile == InitFile /\ wpre = Absent
\* an empty table with no schema
QuietTable == InitTable /\ tschema = <<>> /\ tkek = NoKey
\* no cache file, on a platform with st_birthtime
QuietCache == InitCache /\ cbirthtime
\* no list of rows held
QuietRow == InitRow /\ rfiles = CHOOSE t \in QTables : TRUE
\* a fresh Schema object and no table
QuietSchema == InitSchema /\ skek = NoKey
\* a table with one row and no thread at work
QuietRace == InitRace /\ xfiles = {"r1"}
\* an empty table u and no cache
QuietJoin == InitJoin /\ jufiles = [i \in UIds |-> NoFile]

vars == <<fileVars, queryVars, tableVars, cacheVars, rowVars, schemaVars, raceVars,
         joinVars>>

Init == InitFile /\ QuietQuery /\ QuietTable /\ QuietCache /\ QuietRow /\ QuietSchema /\ QuietRace
           /\ QuietJoin

\* File.write with readers, faults and a crash
Spec == Init /\ [][NextFile /\ UNCHANGED <<queryVars, tableVars, cacheVars, rowVars, schemaVars, raceVars,
            joinVars>>]_vars

InitQ == QuietFile /\ InitQuery /\ QuietTable /\ QuietCache /\ QuietRow /\ QuietSchema /\ QuietRace
           /\ QuietJoin

\* a Query object's builder calls, normalize and fetch
SpecQuery == InitQ /\ [][NextQuery /\ UNCHANGED <<fileVars, tableVars, cacheVars, rowVars, schemaVars, raceVars,
            joinVars>>]_vars

InitT == QuietFile /\ QuietQuery /\ InitTable /\ QuietCache /\ QuietRow /\ QuietSchema /\ QuietRace
           /\ QuietJoin

\* a table under insert, delete and cached fetch
SpecTable == InitT /\ [][NextTable /\ UNCHANGED <<fileVars, queryVars, cacheVars, rowVars, schemaVars, raceVars,
            joinVars>>]_vars

InitC == QuietFile /\ QuietQuery /\ QuietTable /\ InitCache /\ QuietRow /\ QuietSchema /\ QuietRace
           /\ QuietJoin

InitR == QuietFile /\ QuietQuery /\ QuietTable /\ QuietCache /\ InitRow /\ QuietSchema /\ QuietRace
           /\ QuietJoin

\* the rows of a select query under the caller's reads
SpecRow == InitR /\ [][NextRow /\ UNCHANGED <<fileVars, queryVars, tableVars, cacheVars, schemaVars, raceVars,
            joinVars>>]_vars

InitS == QuietFile /\ QuietQuery /\ QuietTable /\ QuietCache /\ QuietRow /\ InitSchema /\ QuietRace
           /\ QuietJoin

\* a Schema object under add, remove and valid, and the table made from it
SpecSchema == InitS /\ [][NextSchema /\ UNCHANGED <<fileVars, queryVars, tableVars, cacheVars, rowVars, raceVars,
            joinVars>>]_vars

InitX == QuietFile /\ QuietQuery /\ QuietTable /\ QuietCache /\ QuietRow /\ QuietSchema
           /\ InitRace /\ QuietJoin

\* cached fetches of one query interleaved with inserts and deletes
SpecRace == InitX /\ [][NextRace /\ UNCHANGED <<fileVars, queryVars, tableVars, cacheVars, rowVars, schemaVars,
            joinVars>>]_vars

InitJ == QuietFile /\ QuietQuery /\ QuietTable /\ QuietCache /\ QuietRow /\ QuietSchema
           /\ QuietRace /\ InitJoin

\* a cached join query while the joined table changes
SpecJoin == InitJ /\ [][NextJoin /\ UNCHANGED <<fileVars, queryVars, tableVars, cacheVars, rowVars, schemaVars,
            raceVars>>]_vars

\* one cache file under put and valid while time passes
SpecCache == InitC /\ [][NextCache /\ UNCHANGED <<fileVars, queryVars, tableVars, rowVars, schemaVars, raceVars,
            joinVars>>]_vars

\* C1: when the writing process dies after the temporary file was created
\* and before the rename, the target path still holds exactly the content it
\* had before the call, however much of the new content was written.
C1_TargetIntactBeforeRename ==
  (wpre # Absent /\ wcreated /\ ~wrenamed) => Content(Target) = wpre

\* the writer died in the middle of writing new content over an existing target
C1_Witness ==
  /\ wpc = "crashed" /\ crashedAt = "write"
  /\ wpre # Absent /\ wpos >= 1 /\ wcontent # wpre /\ ~wrenamed

\* C2: a reader that opens the target while a write is in progress returns a
\* complete content: the one before the write or the one the write installs,
\* never a mixture or a prefix.
C2_ReadsAreComplete ==
  \A r \in Readers : rpc[r] = "done" => rbuf[r] \in rcands[r]

\* a reader finished with the old content while the writer is about to rename
C2_Witness ==
  \E r \in Readers :
    /\ rpc[r] = "done" /\ wpc = "replace"
    /\ Cardinality(rcands[r]) = 2 /\ rbuf[r] = wpre /\ wpre # Absent

\* C3 as stated: a write that met an OSError returns False and leaves no
\* temporary file behind.
C3_NoTempAfterFault ==
  (wpc = "done" /\ wfault # "none") =>
    wresult = "False" /\ (wcreated => dirent[wtmp] = 0)

\* C3: a write that met an OSError returns False, raises nothing, and its
\* temporary file is gone unless the handler's own unlink failed.
C3_NoTempUnlessUnlinkFails ==
  (wpc = "done" /\ wfault # "none") =>
    wresult = "False" /\ (wcreated /\ wunlinked # "failed" => dirent[wtmp] = 0)

\* the rename failed after the whole content was written, and the handler
\* removed the temporary file
C3_Witness ==
  /\ wpc = "done" /\ wfault = "rename" /\ wunlinked = "ok"
  /\ wresult = "False" /\ wpos = Len(wcontent)

\* the row file of the last insert holds the encoding insert built
HoldsNewEncoding == tlast.enc.exists /\ tfiles[tlast.stem] = tlast.enc

\* C4: whether insert returned True, returned False or raised, the row file
\* is the complete new encoding or what it was before the call, and insert
\* returned True exactly when the file holds the new encoding.
C4_InsertAllOrNothing ==
  tlast.op = "insert" =>
    /\ HoldsNewEncoding \/ tfiles[tlast.stem] = tlast.pre
    /\ tlast.ret = "True" <=> HoldsNewEncoding

\* C5: after insert(columns) returned True, the new row's columns() yields
\* every inserted (name, value) pair with the value that was inserted, and
\* besides them only "_id" and the schema's columns defaulted to None.
C5_RoundTrip ==
  (tlast.op = "insert" /\ tlast.ret = "True") =>
    LET r == RowColumns(tfiles, tschema, tkek, tlast.stem)
    IN /\ r.raised = "none"
       /\ \A k \in DOMAIN tlast.cols :
            \E i \in DOMAIN r.pairs : r.pairs[i] = <<k, tlast.cols[k]>>
       /\ \A i \in DOMAIN r.pairs :
            \/ r.pairs[i][1] \in DOMAIN tlast.cols \cup {"_id"}
            \/ r.pairs[i][1] \in DOMAIN tschema /\ r.pairs[i][2] = PyNone

\* C6: right after insert or delete returned True the table has no cache
\* entry left, and a fetch served from the cache returns the list the query
\* gives on the rows the table holds now.
C6_CacheCoherence ==
  /\ (tlast.op \in {"insert", "delete"} /\ tlast.ret = "True")
       => \A f \in TCacheFiles : ~(tcachedir /\ tcache[f].present)
  /\ (tlast.op = "fetch" /\ tlast.ret = "list" /\ tlast.hit)
       => \E order \in Orderings(ExistingRows) :
            LET d == FetchData(TDesc(tlast.qi), tfiles, tschema, tkek, order)
            IN d.raised = "none" /\ tlast.rows = SliceDefault(d.rows)

\* the orders in which the calls of a call history can be made
CallOrders(calls) ==
  {[i \in DOMAIN calls |-> calls[p[i]]] : p \in Orderings(DOMAIN calls)}
\* the int a table row holds in a column
QVal(h, col) ==
  JsonLoads(qfiles[h.id].values[IndexOf(qfiles[h.id].header, col)]).n
FetchReturned == qout.done = "fetch" /\ qout.raised = "none"
OnlyKinds(kinds) == \A i \in DOMAIN qcalls : qcalls[i].kind \in kinds
\* the values of a column along the fetched list never go down / never go up
NonDecreasing(rows, col) ==
  \A i, j \in DOMAIN rows : i < j => QVal(rows[i], col) <= QVal(rows[j], col)
NonIncreasing(rows, col) ==
  \A i, j \in DOMAIN rows : i < j => QVal(rows[i], col) >= QVal(rows[j], col)

\* C7: whatever builder calls were made on a Query, making them in any other
\* order gives, after normalize(), the same descriptor and the same cache
\* file name.
C7_NormalizeOrderIndependent ==
  qout.done = "nothing" =>
    \A p \in CallOrders(qcalls) :
      LET mine == Normalize(q)
          other == Normalize(ApplyAll(EmptyQuery, p))
      IN /\ mine.raised = "none" /\ other.raised = "none"
         /\ other.desc = mine.desc
         /\ CacheFile(other.desc) = CacheFile(mine.desc)

\* C8: a fetch of a query made of where calls on distinct columns returns a
\* row of the table iff the row satisfies every one of the predicates.
C8_WhereConjunction ==
  (/\ FetchReturned
   /\ OnlyKinds({"where"}) /\ qcalls # <<>>
   /\ \A i, j \in DOMAIN qcalls : i # j => qcalls[i].col # qcalls[j].col)
  => \A id \in QIds :
       (\E k \in DOMAIN qout.rows : qout.rows[k].id = id)
       <=> \A i \in DOMAIN qcalls :
             WhereMatchValue(PyInt(QVal(Handle(id), qcalls[i].col)),
                             qcalls[i].op, qcalls[i].val)

UpdateStep == tlast' # tlast /\ tlast'.op = "insert" /\ tlast'.id # NoId

\* C14: insert called with an "_id" that names no existing row file raises
\* the id-not-found error and creates no row file.
C14_InsertUnknownId ==
  [][(UpdateStep /\ ~tfiles[tlast'.id].exists)
       => tlast'.raised = "ValueError:id not found" /\ tfiles' = tfiles]_vars

\* C15: insert called with the "_id" of an existing row and columns valid
\* for the table (Row.update on a row not read-only) returns True; afterwards
\* the row's columns() yields every pair of the call and every earlier pair
\* whose name the call did not give.
C15_MergeOnUpdate ==
  [][(/\ UpdateStep /\ tfiles[tlast'.id].exists
      /\ ~HasEncryptedColumns(tschema)
      /\ \A k \in DOMAIN tlast'.cols : SchemaValid(tschema, k, tlast'.cols[k]))
       => /\ tlast'.ret = "True"
          /\ LET old == RowColumns(tfiles, tschema, tkek, tlast'.id).pairs
                 new == RowColumns(tfiles', tschema, tkek, tlast'.id).pairs
             IN /\ \A k \in DOMAIN tlast'.cols :
                     \E i \in DOMAIN new : new[i] = <<k, tlast'.cols[k]>>
                /\ \A j \in DOMAIN old :
                     old[j][1] \in DOMAIN tlast'.cols \/ \E i \in DOMAIN new : new[i] = old[j]]_vars

\* the errors insert raises for a payload it rejects
Rejections == {"ValueError:empty", "ValueError:invalid", "ValueError:kek"}

\* C16: an insert that raises because the payload is empty, a value is
\* invalid for its column or an encrypted column has no master key creates
\* and changes no row file and leaves the cache folder and files as they were.
C16_RejectedInsertNoEffect ==
  [][(tlast' # tlast /\ tlast'.op = "insert" /\ tlast'.raised \in Rejections)
       => UNCHANGED <<tfiles, tcachedir, tcache>>]_vars

\* an insert was rejected for an invalid value on a table that holds a row
\* and a cached query result
C16_Witness ==
  /\ tlast.op = "insert" /\ tlast.raised = "ValueError:invalid"
  /\ ExistingRows # {}
  /\ tcachedir /\ \E f \in TCacheFiles : tcache[f].present

\* C17: insert_many on n column sets attempts all n inserts and returns one
\* outcome per element; an element that is written is in the table whatever
\* happened to the elements before it, and stays there whatever happens to
\* the elements after it.
C17_InsertManyIndependent ==
  tlast.op = "insert_many" =>
    /\ tlast.raised = "none"
    /\ Len(tlast.status) = Len(tlast.many)
    /\ \A k \in DOMAIN tlast.status : tlast.status[k] => tfiles[tlast.ids[k]].exists

\* C18: delete on a row marked read-only returns False and leaves the row
\* files and the cache as they were; delete on an existing row not marked
\* read-only removes its file, leaves the table no cache entry and returns
\* True.
C18_DeleteReadonlyOrFlush ==
  [][(tlast' # tlast /\ tlast'.op = "delete")
       => IF tlast'.readonly
            THEN tlast'.ret = "False" /\ UNCHANGED <<tfiles, tcachedir, tcache>>
            ELSE tfiles[tlast'.stem].exists
                   => /\ tlast'.ret = "True"
                      /\ ~tfiles'[tlast'.stem].exists
                      /\ \A f \in TCacheFiles : ~(tcachedir' /\ tcache'[f].present)]_vars

\* C13: reading an encrypted column of an existing row, with Row.column or
\* Row.columns, through a database opened with a master key other than the
\* one the table's DEK was made under ends in the invalid-key error and
\* returns no value.
C13_WrongKeyRead ==
  (/\ tlast.op \in {"column", "columns"}
   /\ tfiles[tlast.stem].exists
   /\ tkek \notin {NoKey, DekKek}
   /\ IF tlast.op = "column"
        THEN tlast.name \in DOMAIN tschema /\ tschema[tlast.name].encrypted
        ELSE HasEncryptedColumns(tschema))
  => tlast.raised = "ValueError:invalid kek"

\* C12: a cache file created at time t0 and probed by a Cache with
\* expiration t0+1 is valid when probed at t0; probed at any time after t0+1
\* it is invalid and the probe deletes the file.
C12_CacheExpiration ==
  (clast.op = "valid" /\ clast.birth # NoCacheFile /\ clast.expiration = clast.birth + 1)
  => /\ clast.at = clast.birth => clast.ret = "True"
     /\ clast.at > clast.birth + 1 => clast.ret = "False" /\ cbirth = NoCacheFile

\* the value a row of the joined table u holds in a column
UVal(t, col) == JsonLoads(UFiles[t].values[IndexOf(UFiles[t].header, col)])
\* a fetch returned for a query built from join calls only; the clause in
\* force is the last call's (all calls name the table u)
JoinOnly == FetchReturned /\ qcalls # <<>> /\ OnlyKinds({"join"})
\* the rows of u that satisfy op(base.left, target.right) for the base row h
JoinCandidates(h) ==
  LET c == qcalls[Len(qcalls)]
  IN {t \in UIds : WhereMatchValue(PyInt(QVal(h, c.cb)), c.op, UVal(t, c.val.s))}

\* C19: a query with a join and no where/filter returns every base row once,
\* in listing order; a base row with some matching target row carries, under
\* prefix+name, the value of every column of the first matching target row in
\* the target's listing order and nothing but that row's columns and id; a
\* base row with no matching target row carries no added column; no base
\* column is renamed or dropped.
C19_LeftOuterJoin ==
  JoinOnly =>
    LET c == qcalls[Len(qcalls)]
    IN /\ [k \in DOMAIN qout.full |-> qout.full[k].id] = qorder
       /\ \A k \in DOMAIN qout.full :
            LET h == qout.full[k]
                m == JoinCandidates(h)
            IN /\ RowSchema(h, qfiles) = qfiles[h.id].header
               /\ IF m = {} THEN DOMAIN h.custom = {}
                  ELSE \E t \in m :
                         /\ \A o \in m : IndexOf(qout.uorder, t) <= IndexOf(qout.uorder, o)
                         /\ \A n \in SeqRange(UFiles[t].header) :
                              /\ Concat(c.new, n) \in DOMAIN h.custom
                              /\ h.custom[Concat(c.new, n)] = UVal(t, n)
                         /\ DOMAIN h.custom \subseteq
                              {Concat(c.new, n) : n \in SeqRange(UFiles[t].header) \cup {"_id"}}
\* a join fetched where one base row has two matching target rows, the later
\* listed first, and another base row has none
C19_Witness ==
  /\ JoinOnly
  /\ \E k \in DOMAIN qout.full :
       /\ {"u1", "u2"} \subseteq JoinCandidates(qout.full[k])
       /\ IndexOf(qout.uorder, "u2") < IndexOf(qout.uorder, "u1")
       /\ qout.full[k].custom["ub"] = PyInt(8)
  /\ \E k \in DOMAIN qout.full : JoinCandidates(qout.full[k]) = {}

\* the value the file of a returned row stores for the selected column
Stored(h) == JsonLoads(rfiles[h.id].values[IndexOf(rfiles[h.id].header, rsel[1])])

\* C20: after a fetch with select(c, n), every read of a returned row shows
\* the stored value of c under the name n: row[n] returns it and every
\* iteration of columns() yields the pair (n, value); the row file still has
\* c in its header.
C20_SelectStableRelabel ==
  (rsel \notin {<<>>, NoSelect} /\ rlast.op \in {"item", "columns"} /\ rfiles \in QTables) =>
    LET h == rrows[rlast.k]
    IN /\ rsel[1] \in SeqRange(rfiles[h.id].header)
       /\ (rlast.op = "item" /\ rlast.name = rsel[2]) => rlast.val = Stored(h)
       /\ (rlast.op = "columns" /\ rlast.done) =>
            <<rsel[2], Stored(h)>> \in SeqRange(rlast.pairs)

\* a fetch returned for a query built from distinct calls only
DistinctOnly == FetchReturned /\ qcalls # <<>> /\ OnlyKinds({"distinct"})
DistinctCols == {qcalls[i].col : i \in DOMAIN qcalls}
\* the ids of S whose value of column c no id of S listed earlier holds
FirstPerValue(S, c) ==
  {i \in S : \A o \in S : IndexOf(qorder, o) < IndexOf(qorder, i)
                             => QVal(Handle(o), c) # QVal(Handle(i), c)}
\* the ids with a first (a, b) pair: distinct on the composite key
FirstPerPair ==
  {i \in QIds : \A o \in QIds : IndexOf(qorder, o) < IndexOf(qorder, i)
      => <<QVal(Handle(o), "a"), QVal(Handle(o), "b")>> # <<QVal(Handle(i), "a"), QVal(Handle(i), "b")>>}

\* C21: after fetch with distinct(c) no two returned rows hold the same
\* value of c, the row kept for a value is the first of the listing with it,
\* and the kept rows keep their relative order; with distinct on a and on b
\* the rows kept are the first-per-b among the first-per-a, one column after
\* the other.
C21_DistinctFirstOccurrence ==
  DistinctOnly =>
    LET res == qout.full
        ids == {res[k].id : k \in DOMAIN res}
    IN /\ \A c \in DistinctCols : \A i, j \in DOMAIN res :
            i # j => QVal(res[i], c) # QVal(res[j], c)
       /\ \A i, j \in DOMAIN res :
            i < j => IndexOf(qorder, res[i].id) < IndexOf(qorder, res[j].id)
       /\ ids = IF DistinctCols = {"a", "b"}
                  THEN FirstPerValue(FirstPerValue(QIds, "a"), "b")
                  ELSE FirstPerValue(QIds, CHOOSE c \in DistinctCols : TRUE)
\* distinct on both columns fetched where the composite key would have kept
\* more rows than the two passes did
C21_Witness ==
  /\ DistinctOnly
  /\ DistinctCols = {"a", "b"}
  /\ Len(qout.full) < Cardinality(FirstPerPair)
  /\ Len(qout.full) >= 1

\* C22: Where.match never raises; it returns False whenever the column of
\* the criteria is absent from the row, whatever the operator and the value
\* compared with, and whenever the operator is not a supported one.
C22_AbsentColumnNoMatch ==
  (rlast.op = "match" /\ rfiles \in QTables) =>
    /\ rlast.raised = "none"
    /\ rlast.name \notin SeqRange(rfiles[rrows[rlast.k].id].header) => ~rlast.m
    /\ rlast.cop = "~" => ~rlast.m

\* C23: Row.column(name) on a held handle returns the value the row file
\* holds for that column now, also when the file was rewritten with another
\* header after the handle first read it (names the select clause renamed
\* aside).
C23_NoStaleContent ==
  [][(rlast' # rlast /\ rlast'.op = "item" /\ rlast'.name \notin SeqRange(rsel)
        /\ rlast'.name \in SeqRange(rfiles[rrows[rlast'.k].id].header)) =>
       LET f == rfiles[rrows[rlast'.k].id]
       IN rlast'.val = JsonLoads(f.values[IndexOf(f.header, rlast'.name)])]_vars

\* what columns() is to yield for a row with no overlay: the stored columns
\* in header order, then the id
StoredPairs(id) ==
  LET f == rfiles[id]
  IN [i \in DOMAIN f.header |-> <<f.header[i], JsonLoads(f.values[i])>>]
       \o << <<"_id", PyStr(id)>> >>

\* C24: every call of Row.columns() yields the stored columns in header
\* order, then the overlay, then ("_id", id) once and last, whether or not an
\* earlier iteration on the same row was run to its end or abandoned after
\* some items (rows fetched with no select clause, files not rewritten).
C24_ColumnsRestartable ==
  [][(rlast' # rlast /\ rlast'.op = "columns" /\ rsel = NoSelect /\ rfiles \in QTables) =>
       LET exp == StoredPairs(rrows[rlast'.k].id)
       IN /\ rlast'.pairs = SubSeq(exp, 1, Len(rlast'.pairs))
          /\ rlast'.done => rlast'.pairs = exp]_vars

\* the writing process died after creating its temporary file and before
\* the rename, and the file is still there
CrashLeftTemp == wpc = "crashed" /\ wcreated /\ ~wrenamed /\ wtmp # NoPath /\ dirent[wtmp] # 0

\* C25: the temporary file a crashed write left behind is not a row for
\* Table.rows(), not a table for Database.tables() and not an entry
\* Cache.valid()/get() serve, whichever of the written files (row, metadata,
\* cache entry) the write was for; the row listing of the modelled directory
\* holds nothing but the target.
C25_TempNeverState ==
  CrashLeftTemp =>
    /\ TableRows(dirent) \subseteq {Target}
    /\ \A h \in RandomIds : wtmp = TempPath(Target, h) =>
         \A t \in WriteTargets :
           /\ TableRows(LeftBehind(t, h)) = {}
           /\ DatabaseTables(LeftBehind(t, h)) = {}
           /\ ~CacheServes(LeftBehind(t, h))
\* a crash left a temporary file next to an existing row file
C25_Witness == CrashLeftTemp /\ dirent[Target] # 0 /\ TableRows(dirent) = {Target}

\* C26: when the process died after an insert replaced the row file and
\* before the cache was flushed, the next fetch of a query whose cache entry
\* was made before that write does not serve the entry.
C26_StaleEntryAfterCrash ==
  [][(tlast.op = "crash" /\ tlast'.op = "fetch" /\ tcachedir
        /\ tcache[CacheFile(TDesc(tlast'.qi))].present)
       => ~tlast'.hit]_vars

\* C27: every row file has a header of column names in ascending order
\* without "_id", and exactly one value line per header entry.
C27_RowFileFormat ==
  \A i \in RowIds : tfiles[i].exists =>
    /\ Len(tfiles[i].values) = Len(tfiles[i].header)
    /\ "_id" \notin SeqRange(tfiles[i].header)
    /\ \A m, n \in DOMAIN tfiles[i].header :
         m < n => NameLess(tfiles[i].header[m], tfiles[i].header[n])
\* an insert of two columns into a table that declares columns returned
\* True and its file is in place
C27_Witness ==
  /\ tlast.op = "insert" /\ tlast.ret = "True"
  /\ tschema # <<>>
  /\ Cardinality(DOMAIN tlast.cols) = 2
  /\ tfiles[tlast.stem] = tlast.enc
  /\ Len(tfiles[tlast.stem].header) >= 2

\* C29: whenever a table's metadata has been persisted, after create_table
\* and after any later alter, its 'dek' is non-empty exactly when its
\* persisted schema has a column with encrypted = true.
C29_DekIffEncryptedColumn ==
  smeta.exists => (smeta.dek # "" <=> HasEncryptedColumns(smeta.schema))

\* C30: Schema.valid on a declared column returns True for null exactly when
\* the column is not required; for a column declared with an enum type and
\* enum_values it returns True only for one of the declared values; for any
\* other type it returns True exactly when the value's runtime type is in the
\* type's allowed set.
C30_ValidByDeclaration ==
  (slast.op = "valid" /\ slast.name \in DOMAIN sdefs) =>
    LET col == sdefs[slast.name]
    IN  IF slast.val = PyNone THEN slast.ret = ~col.required
        ELSE IF col.type \in EnumTypes THEN slast.ret => slast.val \in DeclaredEnum
        ELSE slast.ret = (slast.val.t \in ValidTypes(col.type))

\* C31: for a row value v that is comparable with the bounds and a criteria
\* value [lo, hi] with lo <= hi, 'between' matches exactly when
\* lo <= v <= hi and 'not between' matches exactly when 'between' does not.
C31_RangeComplement ==
  [][(rlast' # rlast /\ rlast'.op = "range") =>
       LET rv == RowColumn(rrows[rlast'.k], rfiles, QSchema, NoKey, rlast'.name)
           inside == rlast'.val.n <= rv.val.n /\ rv.val.n <= rlast'.hi.n
       IN  (rv.raised = "none" /\ rv.val.t = "int" /\ rlast'.val.n <= rlast'.hi.n) =>
             rlast'.m = (IF rlast'.cop = "between" THEN inside ELSE ~inside)]_vars

\* C32: the builder keeps every registered clause: after k calls to where
\* (to join) the descriptor, normalized or not, holds k predicates (k
\* joins), also when two calls name the same column (the same table).
C32_EveryClauseKept ==
  /\ Len(q.where) = Cardinality({i \in DOMAIN qcalls : qcalls[i].kind = "where"})
  /\ Len(q.join) = Cardinality({i \in DOMAIN qcalls : qcalls[i].kind = "join"})

\* C33: for a query with no join and no map clause, the list fetch returns
\* holds each row of the table at most once: no row id occurs twice,
\* whatever where predicates are registered.
C33_NoDuplicateRows ==
  (qout.done = "fetch" /\ qout.raised = "none" /\ q.join = <<>> /\ q.map = <<>>) =>
    \A i, j \in DOMAIN qout.rows : qout.rows[i].id = qout.rows[j].id => i = j

\* C34: when a cached fetch that missed the cache and has read the rows
\* overlaps with an insert or a delete of another thread, then once all of
\* them have finished, a fetch of the same query that is served from the
\* cache returns the rows the table holds, never the list built before the
\* mutation.
C34_NoStaleEntryAfterOverlap ==
  (xlast.hit /\ xlast.quiet) => xlast.rows = xlast.table

\* C35: for a cached query on table t that joins table u, the fetch that
\* follows a successful insert or delete on u returns the joined columns of
\* u's current rows: the list the same query returns with no_cache().
C35_JoinNotServedStale ==
  (jlast.op = "fetch" /\ jlast.after \in {"insert", "delete"}) => jlast.rows \in JFresh

\* C36: whenever File.write returns False, whatever step met the OSError,
\* the target path holds the content it had before the call.
C36_FalseMeansUnchanged ==
  (wpc = "done" /\ wresult = "False") => Content(Target) = wpre

\* C37: when an insert without "_id" returns True, exactly one row file is
\* new, under an id no row file had before the call, and every row file
\* that existed before the call is unchanged.
C37_InsertFramed ==
  [][(tlast' # tlast /\ tlast'.op = "insert" /\ tlast'.id = NoId /\ tlast'.ret = "True") =>
       /\ ~tfiles[tlast'.stem].exists
       /\ tfiles'[tlast'.stem].exists
       /\ \A i \in RowIds \ {tlast'.stem} : tfiles'[i] = tfiles[i]]_vars

\* an insert without "_id" returned True on a table that held another row
C37_Witness ==
  /\ tlast.op = "insert" /\ tlast.id = NoId /\ tlast.ret = "True"
  /\ tfiles[tlast.stem].exists
  /\ \E i \in RowIds \ {tlast.stem} : tfiles[i].exists

\* C11: with limit(max, offset) set, fetch returns the rows at the positions
\* offset .. offset+max-1 of the list the pipeline produced (as many of them
\* as exist); with no limit set it returns the whole list.
C11_LimitOffsetSlice ==
  FetchReturned =>
    IF qlimit.open THEN qout.rows = qout.full
    ELSE LET n == Min(qlimit.stop, Len(qout.full) - qlimit.start)
         IN /\ Len(qout.rows) = (IF n < 0 THEN 0 ELSE n)
            /\ \A k \in DOMAIN qout.rows : qout.rows[k] = qout.full[qlimit.start + k]

\* C10: after a single sort(column, "ASC") the fetched rows are in
\* non-decreasing order of the column, after sort(column, "DESC") in
\* non-increasing order.
C10_SortDirection ==
  (FetchReturned /\ Len(qcalls) = 1 /\ OnlyKinds({"sort"}))
  => IF qcalls[1].op = "ASC" THEN NonDecreasing(qout.rows, qcalls[1].col)
     ELSE NonIncreasing(qout.rows, qcalls[1].col)

====
